---- MODULE Spec2Model ----
(***************************************************************************)
(* scandium (include/scandium.h): a header-only C++ wrapper over the       *)
(* sqlite3 C interface.  The model covers the objects of the wrapper       *)
(* (database, sqlite_holder, sqlite_stmt_holder, statement, result_set,    *)
(* iterator, cursor, transaction) and the part of the engine's contract    *)
(* the wrapper depends on (result codes of open, prepare, step, reset,     *)
(* finalize, bind and of BEGIN / COMMIT / ROLLBACK; the storage classes    *)
(* and the column accessors).                                              *)
(*                                                                         *)
(* Shared ownership (std::shared_ptr) is modelled by reference counting    *)
(* computed from the live objects: an action that drops the last reference *)
(* to a holder runs that holder's destructor as part of the action.        *)
(***************************************************************************)
EXTENDS Integers, Sequences, FiniteSets, TLC

\* ------------------------------------------------------------------ bounds
MaxHolders == 2
MaxStmts == 1
MaxIters == 2
MaxRows == 2
MaxRowIndex == 3
MaxFinalize == 2
NParams == 1
MaxValue == 2
MaxTable == 2
MaxTxns == 2
MaxVersion == 2
MaxBlobLen == 2
MaxByte == 1
MaxCols == 2
MaxCursorRows == 1

\* ------------------------------------------------------- program constants
SQLITE_OK == 0
SQLITE_ROW == 100
SQLITE_DONE == 101
\* any result code of the engine other than SQLITE_OK, SQLITE_ROW, SQLITE_DONE
SQLITE_ERROR == SQLITE_OK + 1
NoState == -1
NoHolder == 0
NoStmt == 0

Holders == 1..MaxHolders
Stmts == 1..MaxStmts
Iters == 1..MaxIters
Txns == 1..MaxTxns

\* A value of the engine (a bound parameter, a cell of a row): its storage
\* class, its integer, its bytes.
Null == [type |-> "null", int |-> 0, bytes |-> <<>>]
Integer(v) == [type |-> "integer", int |-> v, bytes |-> <<>>]
Blob(b) == [type |-> "blob", int |-> 0, bytes |-> b]
\* a text or blob longer than the engine's length limit: no bind accepts it
TooBig == [type |-> "toobig", int |-> 0, bytes |-> <<>>]
\* the values a caller binds with bind(index, int)
Values == {Integer(v) : v \in 1..MaxValue}

VARIABLES
    db_holder,  \* database::_db_holder: NoHolder (null) or a sqlite_holder
    holders,    \* the sqlite_holder objects: lifetime and _db
    conn,       \* the native connection each sqlite_holder wraps
    shs,        \* the sqlite_stmt_holder objects and the objects sharing them
    native,     \* the native prepared statement each sqlite_stmt_holder wraps
    iters,      \* the iterator objects
    txns,       \* the transaction objects
    user,       \* database::_before_upgrade_user_version and the calls made to it
    out,        \* the last operation and how it ended
    hist        \* history: what the caller has done so far

vars == <<db_holder, holders, conn, shs, native, iters, txns, user, out, hist>>

\* ------------------------------------------------------------ initial state

NoHolderObj == [st |-> "none", db |-> "null"]
NoContent == [rows |-> <<>>, ver |-> 0]
NoConn == [closes |-> 0, intxn |-> "none", work |-> NoContent, comm |-> NoContent,
           leak |-> FALSE]
NoStmtHolder == [st |-> "none", stmt |-> "null", dbh |-> NoHolder,
                 obj |-> FALSE, rs |-> FALSE]
NoNative == [fin |-> 0, vs |-> "ready", pos |-> 0, failed |-> FALSE,
             nrows |-> 0, writes |-> FALSE, binds |-> <<>>, cols |-> <<>>]
NoTxn == [alive |-> FALSE, dbh |-> NoHolder, in_transaction |-> FALSE]
NoIter == [alive |-> FALSE, sh |-> NoStmt, row_index |-> 0, state |-> NoState]

\* iterator::iterator(): the iterator result_set::end() returns
EndIter == [alive |-> TRUE, sh |-> NoStmt, row_index |-> 0, state |-> NoState]

\* The last operation: its name, the object it was called on (0: the database),
\* what it found (pre), the exception it raised, and whether it passed a
\* destroyed native statement to the engine (uaf).
Outcome(op, k, pre, err, uaf) ==
    [op |-> op, k |-> k, pre |-> pre, err |-> err, uaf |-> uaf]

Init ==
    /\ db_holder = NoHolder
    /\ holders = [h \in Holders |-> NoHolderObj]
    /\ conn = [h \in Holders |-> NoConn]
    /\ shs = [k \in Stmts |-> NoStmtHolder]
    /\ native = [k \in Stmts |-> NoNative]
    /\ iters = [i \in Iters |-> NoIter]
    /\ txns = [t \in Txns |-> NoTxn]
    /\ user = [before_upgrade |-> "unset", calls |-> <<>>]
    /\ out = Outcome("init", 0, "null", "none", FALSE)
    /\ hist = [open |-> FALSE, owner |-> [k \in Stmts |-> 0],
               applied |-> [i \in Iters |-> 0],
               scoped |-> 0, ended |-> "none", mode |-> "none",
               base |-> NoContent, done |-> <<>>, failed |-> FALSE, sql |-> <<>>,
               committed |-> [t \in Txns |-> FALSE]]

\* A null-pointer dereference or a fault inside the engine ends the program.
Running == out.err # "crash"

\* ------------------------------------------------------- shared ownership

\* The owners of statement holder k if iterators held no reference of their own
StmtHolderUsedNoIters(S, I, k) ==
    S[k].obj \/ S[k].rs

\* The objects holding a std::shared_ptr<sqlite_stmt_holder> to k.
StmtHolderUsed(S, I, k) ==
    S[k].obj \/ S[k].rs \/ \E i \in Iters : I[i].alive /\ I[i].sh = k

\* sqlite_stmt_holder::~sqlite_stmt_holder, run for every statement holder whose
\* last owner is gone: finalizes the native statement when _stmt is not null.
ReapStmts(S, N, I) ==
    LET gone(k) == S[k].st = "live" /\ ~StmtHolderUsed(S, I, k)
    IN [s |-> [k \in Stmts |-> IF gone(k)
                               THEN [NoStmtHolder EXCEPT !.st = "dead"]
                               ELSE S[k]],
        n |-> [k \in Stmts |-> IF gone(k) /\ S[k].stmt = "ptr"
                               THEN [N[k] EXCEPT !.fin = @ + 1]
                               ELSE N[k]]]

\* The owners of connection holder h if transactions held no reference of their
\* own
HolderUsedNoTxn(d, S, T, h) ==
    \/ d = h
    \/ \E k \in Stmts : S[k].st = "live" /\ S[k].dbh = h

\* The objects holding a std::shared_ptr<sqlite_holder> to h: the database, and
\* every statement, result_set, iterator and transaction made from it.
HolderUsed(d, S, T, h) ==
    \/ d = h
    \/ \E k \in Stmts : S[k].st = "live" /\ S[k].dbh = h
    \/ \E t \in Txns : T[t].alive /\ T[t].dbh = h

\* sqlite_holder::~sqlite_holder, run for every holder whose last owner is gone:
\* closes the native connection when _db is not null.
ReapHolders(H, C, d, S, T) ==
    LET gone(h) == H[h].st = "live" /\ ~HolderUsed(d, S, T, h)
    IN [h |-> [x \in Holders |-> IF gone(x)
                                 THEN [NoHolderObj EXCEPT !.st = "dead"]
                                 ELSE H[x]],
        c |-> [x \in Holders |-> IF gone(x) /\ H[x].db = "open"
                                 THEN [C[x] EXCEPT !.closes = @ + 1]
                                 ELSE C[x]]]

\* The state once the database holds d, the statement side is S, N, I and the
\* transaction objects are T:
\* destructors of the statement holders run before those of the connection
\* holders (members are destroyed in reverse order of declaration).
Release(d, H, C, S, N, I, T) ==
    LET rs == ReapStmts(S, N, I)
        rh == ReapHolders(H, C, d, rs.s, T)
    IN /\ db_holder' = d
       /\ txns' = T
       /\ shs' = rs.s
       /\ native' = rs.n
       /\ iters' = I
       /\ holders' = rh.h
       /\ conn' = rh.c

\* std::make_shared: the slot of the new object
FreshHolder == IF \E h \in Holders : holders[h].st # "live"
               THEN CHOOSE h \in Holders :
                        /\ holders[h].st # "live"
                        /\ \A g \in Holders : holders[g].st # "live" => h <= g
               ELSE NoHolder

FreshStmt == IF \E k \in Stmts : shs[k].st # "live"
             THEN CHOOSE k \in Stmts :
                      /\ shs[k].st # "live"
                      /\ \A g \in Stmts : shs[g].st # "live" => k <= g
             ELSE NoStmt

\* ------------------------------------------------------------- database

\* database::is_open
IsOpen == db_holder = NoHolder

\* sqlite_holder::is_closed
IsClosed(h) == holders[h].db = "null"

\* What an operation of the database finds
DbPre == IF db_holder = NoHolder THEN "null"
         ELSE IF IsClosed(db_holder) THEN "closed" ELSE "open"

\* database::open: ok is the result of sqlite3_open_v2
Open(ok) ==
    /\ Running
    /\ IF ok
       THEN /\ FreshHolder # NoHolder
            /\ LET h == FreshHolder
               IN Release(h, [holders EXCEPT ![h] = [st |-> "live", db |-> "open"]],
                          [conn EXCEPT ![h] = NoConn], shs, native, iters, txns)
            /\ out' = Outcome("open", 0, DbPre, "none", FALSE)
            /\ hist' = [hist EXCEPT !.open = TRUE]
       ELSE /\ out' = Outcome("open", 0, DbPre, "sqlite_error", FALSE)
            /\ UNCHANGED <<db_holder, holders, conn, shs, native, iters, txns, hist>>
    /\ UNCHANGED user

\* sqlite_holder::close without its early return for a null _db
HolderCloseUnguarded(h) ==
    /\ holders' = [holders EXCEPT ![h].db = "null"]
    /\ conn' = [conn EXCEPT ![h].closes = @ + 1]

\* sqlite_holder::close: sqlite3_close_v2 returns SQLITE_OK for a connection
\* that is open, also when statements are still prepared against it.
HolderClose(h) ==
    IF holders[h].db = "null"
    THEN UNCHANGED <<holders, conn>>
    ELSE /\ holders' = [holders EXCEPT ![h].db = "null"]
         /\ conn' = [conn EXCEPT ![h].closes = @ + 1]

\* database::close as a revision that walks the statements still prepared
\* against the connection and finalizes them before closing
CloseFinalizesStatements ==
    /\ Running
    /\ IF db_holder = NoHolder
       THEN /\ out' = Outcome("close", 0, DbPre, "crash", FALSE)
            /\ UNCHANGED <<holders, conn, hist, native>>
       ELSE /\ HolderClose(db_holder)
            /\ native' = [k \in Stmts |->
                   IF /\ shs[k].st = "live" /\ shs[k].dbh = db_holder
                      /\ ~IsClosed(db_holder) /\ native[k].fin = 0
                   THEN [native[k] EXCEPT !.fin = 1]
                   ELSE native[k]]
            /\ out' = Outcome("close", 0, DbPre, "none", FALSE)
            /\ hist' = [hist EXCEPT !.open = FALSE]
    /\ UNCHANGED <<db_holder, shs, iters, txns, user>>

\* database::close
Close ==
    /\ Running
    /\ IF db_holder = NoHolder
       THEN /\ out' = Outcome("close", 0, DbPre, "crash", FALSE)
            /\ UNCHANGED <<holders, conn, hist>>
       ELSE /\ HolderClose(db_holder)
            /\ out' = Outcome("close", 0, DbPre, "none", FALSE)
            /\ hist' = [hist EXCEPT !.open = FALSE]
    /\ UNCHANGED <<db_holder, shs, native, iters, txns, user>>

\* database::operator=(database &&other) with a database that was never opened:
\* _db_holder gives up its connection holder and takes other's null pointer.
DbMoveAssign ==
    /\ Running
    /\ db_holder # NoHolder
    /\ Release(NoHolder, holders, conn, shs, native, iters, txns)
    /\ out' = Outcome("move_assign", 0, DbPre, "none", FALSE)
    /\ hist' = [hist EXCEPT !.open = FALSE]
    /\ UNCHANGED user

\* ------------------------------------------------- the engine's statements

\* What running a statement to its end does to the connection's content: a
\* writing statement appends one row carrying its bound values; outside a
\* transaction the engine commits it at once.
Execute(n, c) ==
    IF n.writes
    THEN LET w == [c.work EXCEPT !.rows = Append(@, n.binds)]
         IN [c EXCEPT !.work = w,
                      !.comm = IF c.intxn = "none" THEN w ELSE c.comm]
    ELSE c

\* sqlite3_step on a native statement that has not been finalized.  A statement
\* that has halted (SQLITE_DONE or an error) is reset by the engine before it
\* runs again.  fail: the engine reports an error for this step.
NativeStep(n, c, fail) ==
    LET r == IF n.vs = "halt"
             THEN [n EXCEPT !.vs = "ready", !.pos = 0, !.failed = FALSE]
             ELSE n
    IN IF fail
       THEN [rc |-> SQLITE_ERROR, c |-> c,
             nat |-> [r EXCEPT !.vs = "halt", !.pos = 0, !.failed = TRUE]]
       ELSE IF r.pos < r.nrows
       THEN [rc |-> SQLITE_ROW, c |-> c,
             nat |-> [r EXCEPT !.vs = "run", !.pos = @ + 1]]
       ELSE [rc |-> SQLITE_DONE,
             c |-> IF r.vs = "ready" THEN Execute(r, c) ELSE c,
             nat |-> [r EXCEPT !.vs = "halt", !.pos = 0]]

\* sqlite3_reset: back to the first row; returns the error of the last step.
NativeReset(n) ==
    [rc |-> IF n.failed THEN SQLITE_ERROR ELSE SQLITE_OK,
     nat |-> [n EXCEPT !.vs = "ready", !.pos = 0, !.failed = FALSE]]

\* sqlite3_finalize: destroys the statement; returns the error of the last step.
NativeFinalize(n) ==
    [rc |-> IF n.failed THEN SQLITE_ERROR ELSE SQLITE_OK,
     nat |-> [n EXCEPT !.fin = @ + 1]]

\* sqlite3_bind_int and the other sqlite3_bind_ functions: SQLITE_MISUSE when
\* the statement has been stepped more recently than it was reset, SQLITE_RANGE
\* when the index is not one of the statement's parameters.
NativeBind(n, index, v) ==
    IF n.vs # "ready" \/ index \notin 1..Len(n.binds) \/ v = TooBig
    THEN [rc |-> SQLITE_ERROR, nat |-> n]
    ELSE [rc |-> SQLITE_OK, nat |-> [n EXCEPT !.binds[index] = v]]

\* nparams parameters, none bound yet
RECURSIVE NullBinds(_)
NullBinds(nparams) == IF nparams = 0 THEN <<>> ELSE Append(NullBinds(nparams - 1), Null)

\* sqlite3_clear_bindings: every parameter becomes NULL; always SQLITE_OK
NativeClearBindings(n) ==
    [n EXCEPT !.binds = NullBinds(Len(n.binds))]

\* The names of the statement's placeholders, as in
\*   INSERT INTO table_1 VALUES(:id, :data)
ParamName(j) == CASE j = 1 -> "id" [] j = 2 -> "data" [] OTHER -> "extra"

ParamNames == {"id", "data", "extra", "nope"}

\* sqlite3_bind_parameter_index: the index of the named parameter, or 0
NativeParamIndex(n, name) ==
    IF \E j \in 1..Len(n.binds) : ParamName(j) = name
    THEN CHOOSE j \in 1..Len(n.binds) :
             /\ ParamName(j) = name
             /\ \A g \in 1..Len(n.binds) : ParamName(g) = name => j <= g
    ELSE 0

\* The row the engine's column functions read for statement k (0: none).
CursorRow(k) == IF native[k].vs = "run" THEN native[k].pos ELSE 0

\* --------------------------------------------------- sqlite_stmt_holder

\* A statement holder in the middle of an operation: _stmt, the native
\* statement, the connection's content, and how the operation has gone so far.
Mach(k) == [stmt |-> shs[k].stmt, nat |-> native[k], c |-> conn[shs[k].dbh],
            err |-> "none", uaf |-> FALSE, rc |-> SQLITE_OK]

\* What a native call on a destroyed statement can do: the engine may fault,
\* report SQLITE_MISUSE or appear to succeed.
NoUaf == [err |-> "none", rc |-> SQLITE_OK]

UafResults == {[err |-> "crash", rc |-> SQLITE_ERROR],
               [err |-> "sqlite_error", rc |-> SQLITE_ERROR],
               [err |-> "none", rc |-> SQLITE_OK],
               [err |-> "none", rc |-> SQLITE_ROW],
               [err |-> "none", rc |-> SQLITE_DONE]}

\* _stmt still points to a native statement the engine has already destroyed
Dangling(k) == shs[k].stmt = "ptr" /\ native[k].fin > 0

UafChoices(k) == IF Dangling(k) THEN UafResults ELSE {NoUaf}

\* A native call on a destroyed statement, by a caller that takes every result
\* code but SQLITE_OK for an error ...
UafCall(m, u) ==
    [m EXCEPT !.uaf = TRUE, !.rc = u.rc,
              !.err = IF u.err = "none" /\ u.rc # SQLITE_OK
                      THEN "sqlite_error" ELSE u.err]

\* ... and a sqlite3_step on it, where SQLITE_ROW and SQLITE_DONE are the
\* results that are not errors.
UafStep(m, u) ==
    [m EXCEPT !.uaf = TRUE, !.rc = u.rc,
              !.err = IF u.err = "none" /\ u.rc # SQLITE_ROW /\ u.rc # SQLITE_DONE
                      THEN "sqlite_error" ELSE u.err]

\* sqlite_stmt_holder::handle throws std::logic_error when _stmt is null
Finalized(k) == shs[k].stmt = "null"

\* What an operation on statement holder k finds
StmtPre(k) == IF Finalized(k) THEN "finalized"
              ELSE IF Dangling(k) THEN "dangling" ELSE "prepared"

\* sqlite_stmt_holder::step that also clears the bindings once the step is done
HolderStepClearing(m, fail, u) ==
    IF m.err # "none" THEN m
    ELSE IF m.stmt = "null" THEN [m EXCEPT !.err = "logic_error"]
    ELSE IF m.nat.fin > 0 THEN UafStep(m, u)
    ELSE LET r == NativeStep(m.nat, m.c, fail)
         IN [m EXCEPT !.nat = NativeClearBindings(r.nat), !.c = r.c, !.rc = r.rc,
                      !.err = IF r.rc # SQLITE_ROW /\ r.rc # SQLITE_DONE
                              THEN "sqlite_error" ELSE "none"]

\* sqlite_stmt_holder::step returning whatever sqlite3_step reported
HolderStepUnchecked(m, fail, u) ==
    IF m.err # "none" THEN m
    ELSE IF m.stmt = "null" THEN [m EXCEPT !.err = "logic_error"]
    ELSE IF m.nat.fin > 0 THEN UafStep(m, u)
    ELSE LET r == NativeStep(m.nat, m.c, fail)
         IN [m EXCEPT !.nat = r.nat, !.c = r.c, !.rc = r.rc]

\* sqlite_stmt_holder::step
HolderStep(m, fail, u) ==
    IF m.err # "none" THEN m
    ELSE IF m.stmt = "null" THEN [m EXCEPT !.err = "logic_error"]
    ELSE IF m.nat.fin > 0 THEN UafStep(m, u)
    ELSE LET r == NativeStep(m.nat, m.c, fail)
         IN [m EXCEPT !.nat = r.nat, !.c = r.c, !.rc = r.rc,
                      !.err = IF r.rc # SQLITE_ROW /\ r.rc # SQLITE_DONE
                              THEN "sqlite_error" ELSE "none"]

\* sqlite_stmt_holder::finalize
HolderFinalize(m, u) ==
    IF m.err # "none" THEN m
    ELSE IF m.stmt = "null"
    THEN m  \* sqlite3_finalize(NULL) is a no-op that returns SQLITE_OK
    ELSE IF m.nat.fin > 0
    THEN LET x == UafCall([m EXCEPT !.nat.fin = @ + 1], u)
         IN IF x.err = "none" THEN [x EXCEPT !.stmt = "null"] ELSE x
    ELSE LET r == NativeFinalize(m.nat)
         IN IF r.rc # SQLITE_OK
            THEN [m EXCEPT !.nat = r.nat, !.rc = r.rc, !.err = "sqlite_error"]
            ELSE [m EXCEPT !.nat = r.nat, !.rc = r.rc, !.stmt = "null"]

\* statement::bind(int index, T value), for every value type T
StmtBindAt(m, index, v, u) ==
    IF m.err # "none" THEN m
    ELSE IF m.stmt = "null" THEN [m EXCEPT !.err = "logic_error"]
    ELSE IF m.nat.fin > 0 THEN UafCall(m, u)
    ELSE LET r == NativeBind(m.nat, index, v)
         IN [m EXCEPT !.nat = r.nat, !.rc = r.rc,
                      !.err = IF r.rc # SQLITE_OK THEN "sqlite_error" ELSE "none"]

\* statement::bind(const std::string &, T) without the check of the index the
\* engine resolved
StmtBindNameUnchecked(m, name, v, u) ==
    IF m.err # "none" THEN m
    ELSE IF m.stmt = "null" THEN [m EXCEPT !.err = "logic_error"]
    ELSE IF m.nat.fin > 0 THEN UafCall(m, u)
    ELSE StmtBindAt(m, NativeParamIndex(m.nat, name), v, u)

\* statement::bind(const std::string &parameter_name, T value)
StmtBindName(m, name, v, u) ==
    IF m.err # "none" THEN m
    ELSE IF m.stmt = "null" THEN [m EXCEPT !.err = "logic_error"]
    ELSE IF m.nat.fin > 0 THEN UafCall(m, u)
    ELSE LET index == NativeParamIndex(m.nat, name)
         IN IF index = 0
            THEN [m EXCEPT !.err = "logic_error"]
            ELSE StmtBindAt(m, index, v, u)

\* sqlite_stmt_holder::bind_values(index, first_arg, bind_args...): binds
\* first_arg at index, then the rest from index + 1; with no value left it
\* does nothing.
\* sqlite_stmt_holder::bind_values going on to the values that follow one the
\* engine refused, and raising the first error at the end
RECURSIVE HolderBindValuesKeepGoing(_, _, _, _)
HolderBindValuesKeepGoing(m, index, vals, u) ==
    IF m.err # "none" \/ vals = <<>> THEN m
    ELSE LET s == StmtBindAt(m, index, Head(vals), u)
             r == HolderBindValuesKeepGoing([s EXCEPT !.err = "none"], index + 1,
                                            Tail(vals), u)
         IN [r EXCEPT !.err = IF s.err # "none" THEN s.err ELSE r.err]

RECURSIVE HolderBindValues(_, _, _, _)
HolderBindValues(m, index, vals, u) ==
    IF vals = <<>> THEN m
    ELSE HolderBindValues(StmtBindAt(m, index, Head(vals), u),
                          index + 1, Tail(vals), u)

\* statement::bind_values
StmtBindValues(m, vals, u) == HolderBindValues(m, 1, vals, u)

\* statement::clear_bindings
StmtClearBindings(m, u) ==
    IF m.err # "none" THEN m
    ELSE IF m.stmt = "null" THEN [m EXCEPT !.err = "logic_error"]
    ELSE IF m.nat.fin > 0 THEN UafCall(m, u)
    ELSE [m EXCEPT !.nat = NativeClearBindings(m.nat)]

\* statement::exec_with_bindings
StmtExecWithBindings(m, vals, fail, u) ==
    HolderFinalize(
        HolderStep(StmtBindValues(StmtClearBindings(m, u), vals, u), fail, u), u)

\* The state after an operation on statement holder k that ended as m.
Apply(op, k, m) ==
    /\ shs' = [shs EXCEPT ![k].stmt = m.stmt]
    /\ native' = [native EXCEPT ![k] = m.nat]
    /\ conn' = [conn EXCEPT ![shs[k].dbh] = m.c]
    /\ out' = Outcome(op, k, StmtPre(k), m.err, m.uaf)

\* The caller's history: statement k has been stepped, reset or finalized by
\* something other than the iterator that owned its cursor.
Disturb(k) == [hist EXCEPT !.owner[k] = 0,
                           !.applied = [i \in Iters |->
                               IF hist.owner[k] = i THEN 0 ELSE hist.applied[i]]]

\* A writing statement needs room in the table (a bound of the model).
Room(k) == native[k].writes => Len(conn[shs[k].dbh].work.rows) < MaxTable

\* ------------------------------------------------------------- statement

\* The statements the caller prepares: a SELECT yielding nrows rows, or an
\* INSERT with NParams placeholders.
SelectSql(n) == [nrows |-> n, nparams |-> 0, writes |-> FALSE, cols |-> <<[name |-> "data", src |-> "data"]>>]
InsertSql == [nrows |-> 0, nparams |-> NParams, writes |-> TRUE, cols |-> <<>>]

\* statement::statement(db_holder, sql), reached from database::prepare_statement
\* (asStmt) and from database::query (the temporary statement is destroyed and
\* the result_set keeps the holders).  ok: the result of sqlite3_prepare_v2.
NewStatement(op, sql, ok, asStmt) ==
    /\ Running
    /\ IF db_holder = NoHolder
       THEN /\ out' = Outcome(op, 0, DbPre, "crash", FALSE)
            /\ UNCHANGED <<shs, native>>
       ELSE IF IsClosed(db_holder)
       THEN /\ out' = Outcome(op, 0, DbPre, "logic_error", FALSE)
            /\ UNCHANGED <<shs, native>>
       ELSE IF ~ok
       THEN /\ out' = Outcome(op, 0, DbPre, "sqlite_error", FALSE)
            /\ UNCHANGED <<shs, native>>
       ELSE /\ FreshStmt # NoStmt
            /\ LET k == FreshStmt
               IN /\ shs' = [shs EXCEPT ![k] =
                        [st |-> "live", stmt |-> "ptr", dbh |-> db_holder,
                         obj |-> asStmt, rs |-> ~asStmt]]
                  /\ native' = [native EXCEPT ![k] =
                        [NoNative EXCEPT !.nrows = sql.nrows,
                                         !.writes = sql.writes,
                                         !.binds = NullBinds(sql.nparams),
                                         !.cols = sql.cols]]
            /\ out' = Outcome(op, 0, DbPre, "none", FALSE)
    /\ UNCHANGED <<db_holder, holders, conn, iters, txns, user, hist>>

\* database::prepare_statement
Prepare(sql, ok) == NewStatement("prepare_statement", sql, ok, TRUE)

\* database::query(sql)
DbQuery(sql, ok) == NewStatement("query", sql, ok, FALSE)

\* statement::query
StmtQuery(k) ==
    /\ Running
    /\ shs[k].obj
    /\ shs' = [shs EXCEPT ![k].rs = TRUE]
    /\ out' = Outcome("stmt_query", k, StmtPre(k), "none", FALSE)
    /\ UNCHANGED <<db_holder, holders, conn, native, iters, txns, user, hist>>

\* statement::exec
StmtExec(k, fail) ==
    /\ Running
    /\ shs[k].obj
    /\ Room(k)
    /\ \E u \in UafChoices(k) : Apply("exec", k, HolderStep(Mach(k), fail, u))
    /\ hist' = Disturb(k)
    /\ UNCHANGED <<db_holder, holders, iters, txns, user>>

\* statement::finalize
StmtFinalize(k) ==
    /\ Running
    /\ shs[k].obj
    /\ native[k].fin < MaxFinalize
    /\ \E u \in UafChoices(k) : Apply("finalize", k, HolderFinalize(Mach(k), u))
    /\ hist' = Disturb(k)
    /\ UNCHANGED <<db_holder, holders, iters, txns, user>>

\* statement::bind(int, T)
Bind(k, index, v) ==
    /\ Running
    /\ shs[k].obj
    /\ \E u \in UafChoices(k) : Apply("bind", k, StmtBindAt(Mach(k), index, v, u))
    /\ UNCHANGED <<db_holder, holders, iters, txns, user, hist>>

\* statement::bind(const std::string &, T)
BindName(k, name, v) ==
    /\ Running
    /\ shs[k].obj
    /\ \E u \in UafChoices(k) :
           Apply("bind_name", k, StmtBindName(Mach(k), name, v, u))
    /\ UNCHANGED <<db_holder, holders, iters, txns, user, hist>>

\* statement::bind_values
BindValues(k, vals) ==
    /\ Running
    /\ shs[k].obj
    /\ \E u \in UafChoices(k) :
           Apply(IF vals = <<>> THEN "bind_values()" ELSE "bind_values", k,
                 StmtBindValues(Mach(k), vals, u))
    /\ UNCHANGED <<db_holder, holders, iters, txns, user, hist>>

\* statement::clear_bindings
ClearBindings(k) ==
    /\ Running
    /\ shs[k].obj
    /\ \E u \in UafChoices(k) :
           Apply("clear_bindings", k, StmtClearBindings(Mach(k), u))
    /\ UNCHANGED <<db_holder, holders, iters, txns, user, hist>>

\* statement::exec_with_bindings
ExecWithBindings(k, vals, fail) ==
    /\ Running
    /\ shs[k].obj
    /\ Room(k)
    /\ native[k].fin < MaxFinalize
    /\ \E u \in UafChoices(k) :
           Apply("exec_with_bindings", k,
                 StmtExecWithBindings(Mach(k), vals, fail, u))
    /\ hist' = Disturb(k)
    /\ UNCHANGED <<db_holder, holders, iters, txns, user>>

\* statement::~statement
StmtDestroy(k) ==
    /\ Running
    /\ shs[k].obj
    /\ Release(db_holder, holders, conn, [shs EXCEPT ![k].obj = FALSE], native, iters, txns)
    /\ UNCHANGED user
    /\ out' = Outcome("~statement", k, StmtPre(k), "none", FALSE)
    /\ hist' = IF StmtHolderUsed([shs EXCEPT ![k].obj = FALSE], iters, k)
               THEN hist ELSE Disturb(k)

\* result_set::~result_set
RsDestroy(k) ==
    /\ Running
    /\ shs[k].rs
    /\ Release(db_holder, holders, conn, [shs EXCEPT ![k].rs = FALSE], native, iters, txns)
    /\ UNCHANGED user
    /\ out' = Outcome("~result_set", k, StmtPre(k), "none", FALSE)
    /\ hist' = IF StmtHolderUsed([shs EXCEPT ![k].rs = FALSE], iters, k)
               THEN hist ELSE Disturb(k)

\* ---------------------------------------------------- result_set, iterator

\* iterator::operator== recognising the end sentinel on the right-hand side only
IterEqOneSided(a, b) ==
    IF a.state = SQLITE_DONE /\ b.state = NoState THEN TRUE
    ELSE /\ a.sh = b.sh
         /\ a.row_index = b.row_index
         /\ a.state = b.state

\* iterator::operator==
IterEq(a, b) ==
    IF a.state = SQLITE_DONE /\ b.state = NoState THEN TRUE
    ELSE IF a.state = NoState /\ b.state = SQLITE_DONE THEN TRUE
    ELSE /\ a.sh = b.sh
         /\ a.row_index = b.row_index
         /\ a.state = b.state

\* iterator::operator!=
IterNe(a, b) == ~IterEq(a, b)

\* result_set::begin without its sqlite3_reset
RsBeginNoReset(m, fail, u) ==
    IF m.stmt = "null" THEN [m EXCEPT !.err = "logic_error"]
    ELSE IF m.nat.fin > 0 THEN UafStep(m, u)
    ELSE LET s == NativeStep(m.nat, m.c, fail)
         IN [m EXCEPT !.nat = s.nat, !.c = s.c, !.rc = s.rc,
                      !.err = IF s.rc # SQLITE_ROW /\ s.rc # SQLITE_DONE
                              THEN "sqlite_error" ELSE "none"]

\* result_set::begin: sqlite3_reset, then sqlite3_step
RsBegin(m, fail, u) ==
    IF m.stmt = "null" THEN [m EXCEPT !.err = "logic_error"]
    ELSE IF m.nat.fin > 0 THEN UafStep(m, u)
    ELSE LET r == NativeReset(m.nat)
         IN IF r.rc # SQLITE_OK
            THEN [m EXCEPT !.nat = r.nat, !.rc = r.rc, !.err = "sqlite_error"]
            ELSE LET s == NativeStep(r.nat, m.c, fail)
                 IN [m EXCEPT !.nat = s.nat, !.c = s.c, !.rc = s.rc,
                              !.err = IF s.rc # SQLITE_ROW /\ s.rc # SQLITE_DONE
                                      THEN "sqlite_error" ELSE "none"]

\* result_set::begin into the iterator object i
Begin(k, i, fail) ==
    /\ Running
    /\ shs[k].rs
    /\ ~iters[i].alive
    /\ Room(k)
    /\ \E u \in UafChoices(k) :
         LET m == RsBegin(Mach(k), fail, u)
         IN /\ Apply("begin", k, m)
            /\ iters' = IF m.err = "none"
                        THEN [iters EXCEPT ![i] = [alive |-> TRUE, sh |-> k,
                                                   row_index |-> 0, state |-> m.rc]]
                        ELSE iters
            /\ hist' = IF m.err = "none" /\ ~m.uaf
                       THEN [Disturb(k) EXCEPT !.owner[k] = i, !.applied[i] = 0]
                       ELSE Disturb(k)
    /\ UNCHANGED <<db_holder, holders, txns, user>>

\* iterator::operator++ without _row_index++
IterStepNoCount(it, m) ==
    IF m.err = "logic_error" \/ m.err = "crash" THEN it
    ELSE [it EXCEPT !.state = m.rc]

\* iterator::operator++: _state takes the result of sqlite3_step before it is
\* examined; _row_index is incremented when the step did not fail.
IterStep(it, m) ==
    IF m.err = "logic_error" \/ m.err = "crash" THEN it
    ELSE IF m.err = "none"
    THEN [it EXCEPT !.state = m.rc, !.row_index = @ + 1]
    ELSE [it EXCEPT !.state = m.rc]

IterNext(i, fail) ==
    /\ Running
    /\ iters[i].alive
    /\ iters[i].row_index < MaxRowIndex
    /\ Room(iters[i].sh)
    /\ LET k == iters[i].sh
       IN \E u \in UafChoices(k) :
            LET m == HolderStep(Mach(k), fail, u)
            IN /\ Apply("operator++", k, m)
               /\ iters' = [iters EXCEPT ![i] = IterStep(iters[i], m)]
               /\ hist' = IF m.err = "none" /\ ~m.uaf /\ hist.owner[k] = i
                          THEN [hist EXCEPT !.applied[i] = @ + 1]
                          ELSE Disturb(k)
    /\ UNCHANGED <<db_holder, holders, txns, user>>

\* iterator::~iterator
IterDestroy(i) ==
    /\ Running
    /\ iters[i].alive
    /\ Release(db_holder, holders, conn, shs, native, [iters EXCEPT ![i] = NoIter], txns)
    /\ UNCHANGED user
    /\ out' = Outcome("~iterator", iters[i].sh, StmtPre(iters[i].sh), "none", FALSE)
    /\ hist' = IF hist.owner[iters[i].sh] = i THEN Disturb(iters[i].sh) ELSE hist

\* ------------------------------------------------------------------ cursor

\* The rows of the table on the database's connection
TableRows == conn[db_holder].work.rows

\* the number of rows a SELECT without a WHERE clause finds
TableLen == IF db_holder = NoHolder THEN 0 ELSE Len(TableRows)

\* The byte sequences a caller binds as a blob; the byte 0 is the NUL character
ByteSeqs == UNION {[1..len -> 0..MaxByte] : len \in 0..MaxBlobLen}

\* struct blob {data, size} viewing the byte sequence b, and the blob of a
\* null data pointer
BlobOf(b) == [null |-> FALSE, bytes |-> b, size |-> Len(b)]
NullBlob == [null |-> TRUE, bytes |-> <<>>, size |-> 0]

\* sqlite3_bind_blob(data, size): a null data pointer binds NULL
NativeBlobValue(arg) == IF arg.null THEN Null ELSE Blob(SubSeq(arg.bytes, 1, arg.size))

\* statement::bind(int, blob)
BindBlob(k, index, arg) == Bind(k, index, NativeBlobValue(arg))

\* statement::bind(int, std::nullptr_t)
BindNull(k, index) == Bind(k, index, Null)

\* What a cell of a row can hold
Cells == {Null} \cup {Integer(v) : v \in 0..MaxValue} \cup {Blob(b) : b \in ByteSeqs}

\* The column names and sources of "SELECT <src> AS <name>, ... FROM table_1"
ColNames == {"data", "Data"}
ColLists == UNION {[1..len -> [name : ColNames, src : {"rowid", "data"}]] :
                   len \in 0..MaxCols}
SelectAs(cols, n) == [SelectSql(n) EXCEPT !.cols = cols]

\* The statement stands on a row of the table
OnRow(k) == /\ native[k].vs = "run"
            /\ native[k].pos \in 1..Len(conn[shs[k].dbh].work.rows)

\* sqlite3_column_*(stmt, index): the cell the statement's current row has in
\* the zero-based column index.  Without a current row, or with an index out
\* of range, the engine leaves the result undefined.
ColumnCell(k, index) ==
    LET n == native[k]
        rows == conn[shs[k].dbh].work.rows
    IN IF OnRow(k) /\ index \in 0..(Len(n.cols) - 1)
       THEN {IF n.cols[index + 1].src = "rowid" THEN Integer(n.pos)
             ELSE rows[n.pos][1]}
       ELSE Cells

\* the decimal text of a non-negative integer ('0' is the byte 48)
RECURSIVE Digits(_)
Digits(v) == IF v < 10 THEN <<48 + v>>
             ELSE Append(Digits(v \div 10), 48 + (v % 10))

\* sqlite3_column_text: a null pointer for NULL, otherwise the bytes of the
\* value as text, followed by a NUL terminator
ColumnText(cell) ==
    CASE cell.type = "null" -> [null |-> TRUE, bytes |-> <<>>]
      [] cell.type = "integer" -> [null |-> FALSE, bytes |-> Append(Digits(cell.int), 0)]
      [] OTHER -> [null |-> FALSE, bytes |-> Append(cell.bytes, 0)]

\* std::strlen
RECURSIVE StrLen(_)
StrLen(s) == IF Head(s) = 0 THEN 0 ELSE 1 + StrLen(Tail(s))

\* What a read of the cursor gives: the exception it raised and its value
NoValue == [null |-> TRUE, bytes |-> <<>>, size |-> 0]
Got(val) == [err |-> "none", val |-> val]

\* cursor::get<blob>(int): data is sqlite3_column_text, size is
\* strlen(data) - 1 converted to int (-1 for the empty text); strlen of a null
\* pointer faults.
GetBlob(cell) ==
    LET text == ColumnText(cell)
    IN IF text.null THEN [err |-> "crash", val |-> NoValue]
       ELSE Got([null |-> FALSE, bytes |-> text.bytes, size |-> StrLen(text.bytes) - 1])

\* cursor::is_null(int) by sqlite3_column_blob, which returns a null pointer
\* for NULL and for a blob of length zero
IsNullByBlob(cell) ==
    Got(cell.type = "null" \/ (cell.type = "blob" /\ cell.bytes = <<>>))

\* cursor::is_null(int): the text accessor returns a null pointer
IsNull(cell) == Got(ColumnText(cell).null)

\* cursor::get<T>(int) and cursor::is_null(int) by the type asked for;
\* sqlite3_column_int gives the integer, or the number the text of the value
\* starts with (0 for NULL and for bytes that are no digits)
GetAs(T, cell) ==
    CASE T = "blob" -> GetBlob(cell)
      [] T = "int" -> Got(IF cell.type = "integer" THEN cell.int ELSE 0)
      [] OTHER -> IsNull(cell)

\* cursor::get_column_index comparing names without regard to case
RECURSIVE ScanColumnsCaseless(_, _, _)
ScanColumnsCaseless(cols, name, i) ==
    IF i >= Len(cols) THEN -1
    ELSE IF cols[i + 1].name = name
            \/ {cols[i + 1].name, name} = {"data", "Data"} THEN i
    ELSE ScanColumnsCaseless(cols, name, i + 1)

\* cursor::get_column_index(const char *): the loop over sqlite3_column_name
\* from index i on; std::strcmp compares byte by byte
RECURSIVE ScanColumns(_, _, _)
ScanColumns(cols, name, i) ==
    IF i >= Len(cols) THEN -1
    ELSE IF cols[i + 1].name = name THEN i
    ELSE ScanColumns(cols, name, i + 1)

GetColumnIndex(cols, name) == ScanColumns(cols, name, 0)

\* The last read of a cursor: the outcome, what was asked (T, and the column
\* by index or by name) and the value returned
Reading(op, k, err, uaf, T, col, val) ==
    [op |-> op, k |-> k, pre |-> StmtPre(k), err |-> err, uaf |-> uaf,
     T |-> T, col |-> col, val |-> val]

\* A read through sqlite_stmt_holder::handle of the cursor of iterator i
CursorRead(i, op, T, col, results) ==
    /\ Running
    /\ iters[i].alive
    /\ LET k == iters[i].sh
       IN \E u \in UafChoices(k), r \in results :
            out' = IF Finalized(k)
                   THEN Reading(op, k, "logic_error", FALSE, T, col, NoValue)
                   ELSE IF Dangling(k)
                   THEN Reading(op, k, IF u.err = "crash" THEN "crash" ELSE r.err,
                                TRUE, T, col, NoValue)
                   ELSE Reading(op, k, r.err, FALSE, T, col, r.val)
    /\ UNCHANGED <<db_holder, holders, conn, shs, native, iters, txns, user, hist>>

\* cursor::get<T>(int column_index), cursor::is_null(int column_index)
CursorGet(i, T, index) ==
    CursorRead(i, "get", T, index,
               {GetAs(T, c) : c \in ColumnCell(iters[i].sh, index)})

\* cursor::get<T>(const std::string &), cursor::is_null(const std::string &)
CursorGetByName(i, T, name) ==
    LET k == iters[i].sh
        index == GetColumnIndex(native[k].cols, name)
    IN CursorRead(i, "get_by_name", T, name,
                  IF index = -1 THEN {[err |-> "logic_error", val |-> NoValue]}
                  ELSE {GetAs(T, c) : c \in ColumnCell(k, index)})

\* cursor::get_column_index(const std::string &)
CursorGetColumnIndex(i, name) ==
    CursorRead(i, "get_column_index", "index", name,
               {Got(GetColumnIndex(native[iters[i].sh].cols, name))})

\* ------------------------------------------- exec_sql and transactions

\* enum class transaction_mode
Modes == {"deferred", "immediate", "exclusive"}

\* The SQL texts passed to exec_sql: "BEGIN <mode>;", "COMMIT;", "ROLLBACK;",
\* an INSERT of one row holding v, and "PRAGMA user_version = v;".
BeginSql(mode) == [kind |-> "begin", mode |-> mode, v |-> 0]
CommitSql == [kind |-> "commit", mode |-> "none", v |-> 0]
RollbackSql == [kind |-> "rollback", mode |-> "none", v |-> 0]
InsertRowSql(v) == [kind |-> "insert", mode |-> "none", v |-> v]
SetVersionSql(v) == [kind |-> "set_version", mode |-> "none", v |-> v]

\* The engine refuses BEGIN inside a transaction, and COMMIT and ROLLBACK
\* outside one.
CanRun(c, sql) ==
    CASE sql.kind = "begin" -> c.intxn = "none"
      [] sql.kind \in {"commit", "rollback"} -> c.intxn # "none"
      [] OTHER -> TRUE

\* A write to the connection's content; outside a transaction the engine
\* commits it at once.
Write(c, w) ==
    [c EXCEPT !.work = w, !.comm = IF c.intxn = "none" THEN w ELSE c.comm]

\* What the engine does when the statement runs
Run(c, sql) ==
    CASE sql.kind = "begin" -> [c EXCEPT !.intxn = sql.mode]
      [] sql.kind = "commit" -> [c EXCEPT !.comm = c.work, !.intxn = "none"]
      [] sql.kind = "rollback" -> [c EXCEPT !.work = c.comm, !.intxn = "none"]
      [] sql.kind = "insert" -> Write(c, [c.work EXCEPT !.rows = Append(@, <<sql.v>>)])
      [] OTHER -> Write(c, [c.work EXCEPT !.ver = sql.v])

\* A connection in the middle of an operation: _db of its sqlite_holder, the
\* native connection, the first exception raised and the SQL texts passed to
\* the engine so far, each with whether it ran.
ConnMach(h) == [db |-> holders[h].db, c |-> conn[h], err |-> "none", log |-> <<>>]

\* How a text appears in the log: a BEGIN by its mode, the others by their kind
SqlText(sql) == IF sql.kind = "begin" THEN sql.mode ELSE sql.kind

\* sqlite_holder::exec_sql passing _db to the engine without handle()'s check
HolderExecSqlUnchecked(m, sql, fail) ==
    IF m.err # "none" THEN m
    ELSE IF fail = "prepare"
    THEN [m EXCEPT !.err = "sqlite_error",
                   !.log = Append(@, [sql |-> SqlText(sql), ok |-> FALSE])]
    ELSE IF fail = "step" \/ ~CanRun(m.c, sql)
    THEN [m EXCEPT !.err = "sqlite_error", !.c.leak = TRUE,
                   !.log = Append(@, [sql |-> SqlText(sql), ok |-> FALSE])]
    ELSE [m EXCEPT !.c = Run(m.c, sql),
                   !.log = Append(@, [sql |-> SqlText(sql), ok |-> TRUE])]

\* sqlite_holder::exec_sql.  fail: "prepare" when sqlite3_prepare_v2 rejects the
\* text, "step" when sqlite3_step reports an error; a failed step leaves the
\* native statement without a sqlite3_finalize.
HolderExecSql(m, sql, fail) ==
    IF m.err # "none" THEN m
    ELSE IF m.db = "null" THEN [m EXCEPT !.err = "logic_error"]
    ELSE IF fail = "prepare"
    THEN [m EXCEPT !.err = "sqlite_error",
                   !.log = Append(@, [sql |-> SqlText(sql), ok |-> FALSE])]
    ELSE IF fail = "step" \/ ~CanRun(m.c, sql)
    THEN [m EXCEPT !.err = "sqlite_error", !.c.leak = TRUE,
                   !.log = Append(@, [sql |-> SqlText(sql), ok |-> FALSE])]
    ELSE [m EXCEPT !.c = Run(m.c, sql),
                   !.log = Append(@, [sql |-> SqlText(sql), ok |-> TRUE])]

\* transaction::commit leaves _in_transaction set when commit_transaction throws
TxnAfterCommitStillActive(tx, m) == tx

\* transaction::commit clearing _in_transaction before commit_transaction runs
TxnAfterCommitAlwaysInactive(tx, m) == [tx EXCEPT !.in_transaction = FALSE]

\* transaction::commit: _in_transaction = false once commit_transaction returned
TxnAfterCommit(tx, m) ==
    IF m.err = "none" THEN [tx EXCEPT !.in_transaction = FALSE] ELSE tx

\* transaction::~transaction never rolling back
TxnDtorLeavesOpen(in_transaction, m) == m

\* transaction::~transaction without the is_closed test and without the try
\* block around rollback
TxnDtorUnguarded(in_transaction, m) ==
    IF in_transaction THEN HolderExecSql(m, RollbackSql, "none") ELSE m

\* transaction::~transaction: rolls back when the transaction is active and the
\* connection has not been closed; whatever the rollback throws is swallowed.
TxnDtor(in_transaction, m) ==
    IF in_transaction /\ m.db # "null"
    THEN [HolderExecSql([m EXCEPT !.err = "none"], RollbackSql, "none")
             EXCEPT !.err = m.err]
    ELSE m

\* History: no transaction object has the connection's transaction to itself.
Unscoped(log) ==
    [hist EXCEPT !.scoped = 0, !.ended = "none", !.mode = "none",
                 !.base = NoContent, !.done = <<>>, !.failed = FALSE, !.sql = log]

\* What an operation on transaction object t finds
TxnPre(t) == IF ~txns[t].in_transaction THEN "inactive"
             ELSE IF IsClosed(txns[t].dbh) THEN "active_closed" ELSE "active"

\* A bound of the model: the table has room for one more row.
TableRoom == db_holder # NoHolder => Len(conn[db_holder].work.rows) < MaxTable

\* An operation of the database that is one exec_sql on its connection
DbExecSql(op, sql, fail) ==
    /\ Running
    /\ IF db_holder = NoHolder
       THEN /\ out' = Outcome(op, 0, DbPre, "crash", FALSE)
            /\ UNCHANGED conn
       ELSE LET m == HolderExecSql(ConnMach(db_holder), sql, fail)
            IN /\ conn' = [conn EXCEPT ![db_holder] = m.c]
               /\ out' = Outcome(op, 0, DbPre, m.err, FALSE)
    /\ UNCHANGED <<db_holder, holders, shs, native, iters, txns, user>>

\* database::exec_sql(sql) with an INSERT of one row
ExecSql(v, fail) ==
    /\ TableRoom
    /\ DbExecSql("exec_sql", InsertRowSql(v), fail)
    /\ hist' = IF hist.scoped = 0 THEN Unscoped(<<>>)
               ELSE IF out'.err = "none"
               THEN [hist EXCEPT !.done = Append(@, <<v>>), !.sql = <<>>]
               ELSE [hist EXCEPT !.failed = (hist.done # <<>>), !.sql = <<>>]

\* database::begin_transaction
DbBegin(mode) ==
    /\ DbExecSql("begin_transaction", BeginSql(mode), "none")
    /\ hist' = Unscoped(<<>>)

\* database::commit_transaction
DbCommit(fail) ==
    /\ DbExecSql("commit_transaction", CommitSql, fail)
    /\ hist' = Unscoped(<<>>)

\* database::rollback_transaction
DbRollback ==
    /\ DbExecSql("rollback_transaction", RollbackSql, "none")
    /\ hist' = Unscoped(<<>>)

\* database::create_transaction into the transaction object t
TxnCreate(t, mode) ==
    /\ Running
    /\ ~txns[t].alive
    /\ IF db_holder = NoHolder
       THEN /\ out' = Outcome("create_transaction", t, DbPre, "crash", FALSE)
            /\ UNCHANGED <<conn, txns, hist>>
       ELSE LET m == HolderExecSql(ConnMach(db_holder), BeginSql(mode), "none")
            IN /\ conn' = [conn EXCEPT ![db_holder] = m.c]
               /\ out' = Outcome("create_transaction", t, DbPre, m.err, FALSE)
               /\ IF m.err = "none"
                  THEN /\ txns' = [txns EXCEPT ![t] =
                              [alive |-> TRUE, dbh |-> db_holder,
                               in_transaction |-> TRUE]]
                       /\ hist' = [Unscoped(m.log) EXCEPT
                                       !.scoped = t, !.mode = mode,
                                       !.base = conn[db_holder].comm,
                                       !.committed[t] = FALSE]
                  ELSE /\ UNCHANGED txns
                       /\ hist' = [hist EXCEPT !.sql = m.log]
    /\ UNCHANGED <<db_holder, holders, shs, native, iters, user>>

\* transaction::commit
TxnCommit(t, fail) ==
    /\ Running
    /\ txns[t].alive
    /\ IF txns[t].dbh = NoHolder
       THEN /\ out' = Outcome("commit", t, TxnPre(t), "crash", FALSE)
            /\ UNCHANGED <<conn, txns, hist>>
       ELSE
       LET h == txns[t].dbh
           m == HolderExecSql(ConnMach(h), CommitSql, fail)
       IN /\ conn' = [conn EXCEPT ![h] = m.c]
          /\ txns' = [txns EXCEPT ![t] = TxnAfterCommit(txns[t], m)]
          /\ out' = Outcome("commit", t, TxnPre(t), m.err, FALSE)
          /\ hist' = IF hist.scoped # t
                     THEN [Unscoped(m.log) EXCEPT
                               !.committed[t] = @ \/ m.err = "none"]
                     ELSE IF m.err = "none"
                     THEN [hist EXCEPT !.scoped = 0, !.ended = "committed",
                                       !.sql = m.log, !.committed[t] = TRUE]
                     ELSE [hist EXCEPT !.failed = (hist.done # <<>>), !.sql = m.log]
    /\ UNCHANGED <<db_holder, holders, shs, native, iters, user>>

\* transaction::~transaction
TxnDestroy(t) ==
    /\ Running
    /\ txns[t].alive
    /\ LET h == txns[t].dbh
           m == IF h = NoHolder THEN [err |-> "none", log |-> <<>>]
                ELSE TxnDtor(txns[t].in_transaction, ConnMach(h))
       IN /\ Release(db_holder, holders,
                     IF h = NoHolder THEN conn ELSE [conn EXCEPT ![h] = m.c],
                     shs, native, iters, [txns EXCEPT ![t] = NoTxn])
          /\ out' = Outcome("~transaction", t, TxnPre(t), m.err, FALSE)
          /\ hist' = IF hist.scoped # t THEN Unscoped(m.log)
                     ELSE [hist EXCEPT !.scoped = 0, !.ended = "destroyed",
                                       !.sql = m.log]
    /\ UNCHANGED user

\* What the move operations leave in the source: a null _db_holder and
\* _in_transaction = false
MovedFrom == [alive |-> TRUE, dbh |-> NoHolder, in_transaction |-> FALSE]

\* A move of transaction object s into d; the holder d referred to before
\* loses that reference
TxnMove(op, d, s) ==
    /\ Running
    /\ s # d
    /\ txns[s].alive
    /\ Release(db_holder, holders, conn, shs, native, iters,
               [txns EXCEPT ![d] = [alive |-> TRUE, dbh |-> txns[s].dbh,
                                    in_transaction |-> txns[s].in_transaction],
                            ![s] = MovedFrom])
    /\ out' = Outcome(op, d, TxnPre(d), "none", FALSE)
    /\ hist' = [Unscoped(<<>>) EXCEPT !.committed[d] = hist.committed[s],
                                     !.committed[s] = FALSE]
    /\ UNCHANGED user

\* transaction::transaction(transaction &&other): d is a new object
TxnMoveConstruct(d, s) == ~txns[d].alive /\ TxnMove("move_construct", d, s)

\* transaction::operator=(transaction &&other): d is an object that exists
TxnMoveAssign(d, s) == txns[d].alive /\ TxnMove("move_assign", d, s)

\* ------------------------------------------------------- user version

\* What the caller's callback does: nothing, db->exec_sql of an INSERT, throw,
\* or the INSERT and then throw
Callbacks == {"noop", "write", "throw", "write_throw"}

\* database::set_before_upgrade_user_version
SetCallback(fn) ==
    /\ Running
    /\ user' = [user EXCEPT !.before_upgrade = fn]
    /\ out' = Outcome("set_before_upgrade_user_version", 0, DbPre, "none", FALSE)
    /\ UNCHANGED <<db_holder, holders, conn, shs, native, iters, txns, hist>>

\* The call update_user_version makes between BEGIN and the PRAGMA: the one
\* std::function the database holds, whatever the direction of the change
CallbackCalls(old_version, version) ==
    IF user.before_upgrade # "unset"
    THEN <<[callback |-> "upgrade", old |-> old_version, new |-> version]>>
    ELSE <<>>

\* The callback's own work on the connection; the call is logged where it is
\* made, with whether it returned.
RunCallback(m, version) ==
    IF m.err # "none" \/ user.before_upgrade = "unset" THEN m
    ELSE LET fn == user.before_upgrade
             called == [m EXCEPT !.log = Append(@, [sql |-> "callback",
                                     ok |-> fn \in {"noop", "write"}])]
             wrote == IF fn \in {"write", "write_throw"}
                      THEN HolderExecSql(called, InsertRowSql(Integer(version)), "none")
                      ELSE called
         IN IF fn \in {"throw", "write_throw"}
            THEN [wrote EXCEPT !.err = "callback_error"]
            ELSE wrote

\* database::get_user_version: the statement of the PRAGMA query is prepared,
\* stepped to its end and finalized inside the call
GetUserVersion(c) == c.work.ver

\* update_user_version rejecting only negative versions
ValidVersionNonNegative(version) == version >= 0

\* update_user_version: version < 1 is rejected
ValidVersion(version) == version >= 1

\* update_user_version going on whatever the stored version is
NeedsUpdateAlways(old_version, version) == TRUE

\* update_user_version: old_version == version returns at once
NeedsUpdate(old_version, version) == old_version # version

\* update_user_version with no transaction around the callback and the PRAGMA
UpdateBodyUnscoped(m0, old_version, version, mode, fail) ==
    LET cb == RunCallback([m0 EXCEPT !.log = <<[sql |-> mode, ok |-> TRUE]>>], version)
    IN HolderExecSql(cb, SetVersionSql(version),
                     IF fail = "pragma" THEN "step" ELSE "none")

\* update_user_version calling back after the PRAGMA
UpdateBodyCallbackLate(m0, old_version, version, mode, fail) ==
    LET b == HolderExecSql(m0, BeginSql(mode), "none")
        p == HolderExecSql(b, SetVersionSql(version),
                           IF fail = "pragma" THEN "step" ELSE "none")
        cb == RunCallback(p, version)
        c == HolderExecSql(cb, CommitSql,
                           IF fail = "commit" THEN "step" ELSE "none")
    IN IF b.err # "none" THEN b
       ELSE TxnDtor(c.err # "none", c)

\* database::update_user_version from create_transaction on: the transaction
\* object is local, so its destructor runs on every way out.
UpdateBody(m0, old_version, version, mode, fail) ==
    LET b == HolderExecSql(m0, BeginSql(mode), "none")
        cb == RunCallback(b, version)
        p == HolderExecSql(cb, SetVersionSql(version),
                           IF fail = "pragma" THEN "step" ELSE "none")
        c == HolderExecSql(p, CommitSql,
                           IF fail = "commit" THEN "step" ELSE "none")
    IN IF b.err # "none" THEN b
       ELSE TxnDtor(c.err # "none", c)

\* database::update_user_version
UpdateUserVersion(version, mode, fail) ==
    /\ Running
    /\ user.before_upgrade \in {"write", "write_throw"} => TableRoom
    /\ IF ~ValidVersion(version)
       THEN /\ out' = Outcome("update_user_version", version, DbPre, "logic_error", FALSE)
            /\ user' = [user EXCEPT !.calls = <<>>]
            /\ hist' = [hist EXCEPT !.sql = <<>>, !.mode = mode]
            /\ UNCHANGED conn
       ELSE IF db_holder = NoHolder
       THEN /\ out' = Outcome("update_user_version", version, DbPre, "crash", FALSE)
            /\ user' = [user EXCEPT !.calls = <<>>]
            /\ hist' = [hist EXCEPT !.sql = <<>>, !.mode = mode]
            /\ UNCHANGED conn
       ELSE IF IsClosed(db_holder)
       THEN /\ out' = Outcome("update_user_version", version, DbPre, "logic_error", FALSE)
            /\ user' = [user EXCEPT !.calls = <<>>]
            /\ hist' = [hist EXCEPT !.sql = <<>>, !.mode = mode]
            /\ UNCHANGED conn
       ELSE LET old_version == GetUserVersion(conn[db_holder])
                m == UpdateBody(ConnMach(db_holder), old_version, version, mode, fail)
            IN IF ~NeedsUpdate(old_version, version)
               THEN /\ out' = Outcome("update_user_version", version, DbPre, "none", FALSE)
                    /\ user' = [user EXCEPT !.calls = <<>>]
                    /\ hist' = [hist EXCEPT !.sql = <<>>, !.mode = mode]
                    /\ UNCHANGED conn
               ELSE /\ conn' = [conn EXCEPT ![db_holder] = m.c]
                    /\ out' = Outcome("update_user_version", version, DbPre, m.err, FALSE)
                    /\ user' = [user EXCEPT !.calls =
                                   IF m.log[1].ok
                                   THEN CallbackCalls(old_version, version)
                                   ELSE <<>>]
                    /\ hist' = [hist EXCEPT !.sql = m.log, !.mode = mode]
    /\ UNCHANGED <<db_holder, holders, shs, native, iters, txns>>

\* ------------------------------------------------------- specifications

\* The connection and the lifetime of the objects made from it.
Next ==
    \/ \E ok \in BOOLEAN : Open(ok)
    \/ Close
    \/ \E n \in 0..MaxRows, ok \in BOOLEAN : Prepare(SelectSql(n), ok)
    \/ \E n \in 0..MaxRows, ok \in BOOLEAN : DbQuery(SelectSql(n), ok)
    \/ \E k \in Stmts : StmtQuery(k)
    \/ \E k \in Stmts : StmtFinalize(k)
    \/ \E k \in Stmts : StmtDestroy(k)
    \/ \E k \in Stmts : RsDestroy(k)

Spec == Init /\ [][Next]_vars

\* A caller that opens the database once.
OpenOnce == db_holder = NoHolder /\ Open(TRUE)

\* Result iteration over the statements of one open connection.
NextIter ==
    \/ OpenOnce
    \/ \E n \in 0..MaxRows, ok \in BOOLEAN : Prepare(SelectSql(n), ok)
    \/ \E n \in 0..MaxRows, ok \in BOOLEAN : DbQuery(SelectSql(n), ok)
    \/ \E k \in Stmts : StmtQuery(k)
    \/ \E k \in Stmts, fail \in BOOLEAN : StmtExec(k, fail)
    \/ \E k \in Stmts : StmtFinalize(k)
    \/ \E k \in Stmts : StmtDestroy(k)
    \/ \E k \in Stmts : RsDestroy(k)
    \/ \E k \in Stmts, i \in Iters, fail \in BOOLEAN : Begin(k, i, fail)
    \/ \E i \in Iters, fail \in BOOLEAN : IterNext(i, fail)
    \/ \E i \in Iters : IterDestroy(i)

SpecIter == Init /\ [][NextIter]_vars

\* The sequences of at most NParams + 1 values a caller passes to bind_values
ValueLists == UNION {[1..len -> Values] : len \in 0..(NParams + 1)}

\* Binding and executing the statements of one open connection.
NextBind ==
    \/ OpenOnce
    \/ \E ok \in BOOLEAN : Prepare(InsertSql, ok)
    \/ \E k \in Stmts : StmtQuery(k)
    \/ \E k \in Stmts, j \in 0..(NParams + 1), v \in Values : Bind(k, j, v)
    \/ \E k \in Stmts, name \in ParamNames, v \in Values : BindName(k, name, v)
    \/ \E k \in Stmts, vals \in ValueLists : BindValues(k, vals)
    \/ \E k \in Stmts : ClearBindings(k)
    \/ \E k \in Stmts, fail \in BOOLEAN : StmtExec(k, fail)
    \/ \E k \in Stmts, vals \in ValueLists, fail \in BOOLEAN :
           ExecWithBindings(k, vals, fail)
    \/ \E k \in Stmts : StmtFinalize(k)
    \/ \E k \in Stmts : StmtDestroy(k)
    \/ \E k \in Stmts : RsDestroy(k)
    \/ \E k \in Stmts, fail \in BOOLEAN : Begin(k, 1, fail)
    \/ \E fail \in BOOLEAN : IterNext(1, fail)
    \/ IterDestroy(1)

SpecBind == Init /\ [][NextBind]_vars

\* Transactions on one connection.
NextTxn ==
    \/ OpenOnce
    \/ Close
    \/ \E v \in Values, fail \in {"none", "prepare", "step"} : ExecSql(v, fail)
    \/ \E mode \in Modes : DbBegin(mode)
    \/ \E fail \in {"none", "step"} : DbCommit(fail)
    \/ DbRollback
    \/ \E t \in Txns, mode \in Modes : TxnCreate(t, mode)
    \/ \E t \in Txns, fail \in {"none", "step"} : TxnCommit(t, fail)
    \/ \E t \in Txns : TxnDestroy(t)

SpecTxn == Init /\ [][NextTxn]_vars

\* The user version of one connection.
NextVersion ==
    \/ OpenOnce
    \/ Close
    \/ \E mode \in Modes : DbBegin(mode)
    \/ DbRollback
    \/ \E fn \in Callbacks : SetCallback(fn)
    \/ \E version \in (-1)..MaxVersion, mode \in Modes,
          fail \in {"none", "pragma", "commit"} :
           UpdateUserVersion(version, mode, fail)

SpecVersion == Init /\ [][NextVersion]_vars

\* The lifetime of a connection shared by the database and the objects made
\* from it.
NextLife ==
    \/ \E ok \in BOOLEAN : Open(ok)
    \/ Close
    \/ DbMoveAssign
    \/ \E ok \in BOOLEAN : Prepare(SelectSql(1), ok)
    \/ \E ok \in BOOLEAN : DbQuery(SelectSql(1), ok)
    \/ \E k \in Stmts : StmtFinalize(k)
    \/ \E k \in Stmts : StmtDestroy(k)
    \/ \E k \in Stmts : RsDestroy(k)
    \/ \E k \in Stmts : Begin(k, 1, FALSE)
    \/ IterDestroy(1)
    \/ \E t \in Txns : TxnCreate(t, "deferred")
    \/ \E t \in Txns : TxnDestroy(t)

SpecLife == Init /\ [][NextLife]_vars

\* The operations of the database on a connection that is open or was closed.
NextClosed ==
    \/ OpenOnce
    \/ Close
    \/ \E ok \in BOOLEAN : Prepare(SelectSql(1), ok)
    \/ \E ok \in BOOLEAN : DbQuery(SelectSql(1), ok)
    \/ \E k \in Stmts : StmtDestroy(k)
    \/ \E k \in Stmts : RsDestroy(k)
    \/ \E v \in Values, fail \in {"none", "prepare", "step"} : ExecSql(v, fail)
    \/ \E mode \in Modes : DbBegin(mode)
    \/ \E fail \in {"none", "step"} : DbCommit(fail)
    \/ DbRollback
    \/ \E t \in Txns, mode \in Modes : TxnCreate(t, mode)
    \/ \E t \in Txns : TxnDestroy(t)

SpecClosed == Init /\ [][NextClosed]_vars

\* The stepping paths: statement::exec, result_set::begin, iterator::operator++
\* and exec_sql on one open connection
NextStep ==
    \/ OpenOnce
    \/ \E n \in 0..MaxRows : Prepare(SelectSql(n), TRUE)
    \/ \E k \in Stmts : StmtQuery(k)
    \/ \E k \in Stmts, fail \in BOOLEAN : StmtExec(k, fail)
    \/ \E k \in Stmts : StmtDestroy(k)
    \/ \E k \in Stmts : RsDestroy(k)
    \/ \E k \in Stmts, fail \in BOOLEAN : Begin(k, 1, fail)
    \/ \E fail \in BOOLEAN : IterNext(1, fail)
    \/ IterDestroy(1)
    \/ \E fail \in {"none", "prepare", "step"} : ExecSql(Integer(1), fail)

SpecStep == Init /\ [][NextStep]_vars

\* Rows written with bound values and read back through a cursor
NextCursor ==
    \/ OpenOnce
    \/ Prepare(InsertSql, TRUE)
    \/ \E k \in Stmts, v \in 0..MaxValue : Bind(k, 1, Integer(v))
    \/ \E k \in Stmts, arg \in {BlobOf(b) : b \in ByteSeqs} \cup {NullBlob} : BindBlob(k, 1, arg)
    \/ \E k \in Stmts : BindNull(k, 1)
    \/ \E k \in Stmts : TableLen < MaxCursorRows /\ StmtExec(k, FALSE)
    \/ \E k \in Stmts : StmtDestroy(k)
    \/ \E cols \in ColLists : DbQuery(SelectAs(cols, TableLen), TRUE)
    \/ \E k \in Stmts : RsDestroy(k)
    \/ \E k \in Stmts : Begin(k, 1, FALSE)
    \/ iters[1].state = SQLITE_ROW /\ IterNext(1, FALSE)
    \/ IterDestroy(1)
    \/ \E T \in {"blob", "int", "is_null"}, index \in 0..MaxCols : CursorGet(1, T, index)
    \/ \E T \in {"blob", "int", "is_null"}, name \in ColNames \cup {"id"} : CursorGetByName(1, T, name)
    \/ \E name \in ColNames \cup {"id"} : CursorGetColumnIndex(1, name)

SpecCursor == Init /\ [][NextCursor]_vars

\* bind_values on a statement with two parameters, with lists that hold a
\* value the engine refuses
NextValues ==
    \/ OpenOnce
    \/ Prepare([InsertSql EXCEPT !.nparams = NParams + 1], TRUE)
    \/ \E k \in Stmts,
          vals \in UNION {[1..len -> Values \cup {TooBig}] : len \in 0..(NParams + 2)} :
           BindValues(k, vals)
    \/ \E k \in Stmts : ClearBindings(k)
    \/ \E k \in Stmts : StmtExec(k, FALSE)
    \/ \E k \in Stmts : StmtDestroy(k)

SpecValues == Init /\ [][NextValues]_vars

\* Transaction objects that are created, committed, moved and destroyed
NextMove ==
    \/ OpenOnce
    \/ \E mode \in Modes : DbBegin(mode)
    \/ DbCommit("none")
    \/ \E t \in Txns : TxnCreate(t, "deferred")
    \/ \E t \in Txns, fail \in {"none", "step"} : TxnCommit(t, fail)
    \/ \E d, s \in Txns : TxnMoveConstruct(d, s)
    \/ \E d, s \in Txns : TxnMoveAssign(d, s)
    \/ \E t \in Txns : TxnDestroy(t)

SpecMove == Init /\ [][NextMove]_vars

\* ------------------------------------------------------------- the claims

\* C1: is_open() returns true exactly when the most recent successful open()
\* has not yet been followed by a close(): false before the first open(), true
\* after open(), false after close(), true again after a re-open.
C1_IsOpenTracksOpenAndClose == IsOpen <=> hist.open

\* C2: close() on a connection that is already closed raises no error, issues
\* no native close call and leaves the connection state unchanged.
C2_CloseIsIdempotent ==
    [][(out'.op = "close" /\ out'.pre = "closed")
        => /\ out'.err = "none"
           /\ conn' = conn
           /\ holders' = holders
           /\ db_holder' = db_holder
           /\ IsClosed(db_holder)']_vars

\* a second close() has just returned
C2_Witness ==
    /\ out.op = "close" /\ out.pre = "closed" /\ out.err = "none"
    /\ conn[db_holder].closes = 1

\* The operations C3 lists as uses of a statement (bind_values with at least
\* one value: with none it makes no call at all).
StatementUses == {"bind", "bind_name", "bind_values", "clear_bindings", "exec",
                  "exec_with_bindings", "operator++"}

\* C3: after statement::finalize(), every further use of that statement raises
\* std::logic_error and issues no native call on the finalized statement.
C3_UseAfterFinalizeIsInvalidState ==
    (out.op \in StatementUses /\ out.pre \in {"finalized", "dangling"})
        => (out.err = "logic_error" /\ ~out.uaf)

\* C4: exec_with_bindings(values...) is clear_bindings(); bind_values(values...);
\* exec() and nothing more: after it returns the statement is still prepared.
C4_ExecWithBindingsKeepsStatement ==
    (out.op = "exec_with_bindings" /\ out.pre = "prepared" /\ out.err = "none")
        => (shs[out.k].stmt = "ptr" /\ native[out.k].fin = 0)

\* C5: for a query with n rows, begin() followed by k applications of
\* operator++ (k < n) leaves the iterator on row k + 1 with row_index = k, and
\* after exactly n applications the iterator compares equal to end().
C5_IterationVisitsRowsInOrder ==
    \A i \in Iters :
        (iters[i].alive /\ iters[i].sh # NoStmt /\ hist.owner[iters[i].sh] = i)
            => LET it == iters[i]
                   a == hist.applied[i]
                   n == native[it.sh].nrows
               IN /\ a < n => /\ it.row_index = a
                              /\ it.state = SQLITE_ROW
                              /\ CursorRow(it.sh) = a + 1
                              /\ IterNe(it, EndIter)
                  /\ a = n => /\ it.row_index = n
                              /\ IterEq(it, EndIter)
                              /\ ~IterNe(it, EndIter)

\* a loop over MaxRows rows has reached end() after MaxRows applications
C5_Witness ==
    \E i \in Iters :
        /\ iters[i].alive /\ iters[i].sh # NoStmt /\ hist.owner[iters[i].sh] = i
        /\ native[iters[i].sh].nrows = MaxRows
        /\ hist.applied[i] = MaxRows
        /\ IterEq(iters[i], EndIter)

\* The iterators a caller can compare: the live ones and end()
Comparable == {iters[i] : i \in {j \in Iters : iters[j].alive}} \cup {EndIter}

\* C6: an iterator whose last step reported DONE compares equal to end() in
\* both argument orders, and a != b is exactly the negation of a == b.
C6_DoneEqualsEndBothWays ==
    /\ \A a \in Comparable :
           a.state = SQLITE_DONE => IterEq(a, EndIter) /\ IterEq(EndIter, a)
    /\ \A a, b \in Comparable : IterNe(a, b) <=> ~IterEq(a, b)

\* an iterator has stepped past the last row of a result that has rows
C6_Witness ==
    \E i \in Iters :
        /\ iters[i].alive /\ iters[i].state = SQLITE_DONE /\ iters[i].row_index > 0
        /\ out.op = "operator++" /\ out.err = "none" /\ ~out.uaf

\* The row the cursor of iterator i reads: cursor holds the statement holder
\* only, and every column function reads the statement's current row.
IterRow(i) == CursorRow(iters[i].sh)

\* C7: begin() again on a result set resets the shared statement and steps it
\* to the first row: the new iterator has row_index 0 and reads row 1, every
\* earlier iterator of the result set reads that same row, and the earlier
\* iterators' stored row_index and state are left as they were.
C7_BeginRestartsSharedCursor ==
    [][\A i \in Iters :
        (/\ out'.op = "begin" /\ out'.err = "none" /\ ~out'.uaf
         /\ ~iters[i].alive /\ iters'[i].alive)
        => /\ iters'[i].row_index = 0
           /\ native[out'.k].nrows > 0 =>
                  /\ iters'[i].state = SQLITE_ROW
                  /\ IterRow(i)' = 1
           /\ \A j \in Iters \ {i} :
                  /\ iters'[j] = iters[j]
                  /\ (iters[j].alive /\ iters[j].sh = out'.k) => IterRow(j)' = IterRow(i)'
       ]_vars

\* begin() has been called while an earlier iterator stood on the second row
C7_Witness ==
    /\ out.op = "begin" /\ out.err = "none" /\ ~out.uaf
    /\ \E i, j \in Iters :
          /\ i # j /\ iters[i].alive /\ iters[j].alive
          /\ iters[i].sh = out.k /\ iters[j].sh = out.k
          /\ hist.owner[out.k] = i
          /\ iters[j].state = SQLITE_ROW /\ iters[j].row_index = 1
          /\ IterRow(j) = 1

\* The ROLLBACK statements the last operation passed to the engine
Rollbacks == SelectSeq(hist.sql, LAMBDA e : e.sql = "rollback")

\* C8 as stated: destroying a transaction object that is still active issues
\* exactly one ROLLBACK on its connection and no error escapes the destructor;
\* destroying one after a successful commit() issues no rollback.
C8_DestructorRollsBackOnce ==
    out.op = "~transaction"
        => /\ out.err = "none"
           /\ ~hist.committed[out.k] => Len(Rollbacks) = 1
           /\ hist.committed[out.k] => Len(Rollbacks) = 0

\* C8: destroying a transaction object that is still active, on a connection
\* that has not been closed, issues exactly one ROLLBACK on its connection, and
\* no error escapes the destructor even when that rollback fails; destroying a
\* transaction object after a successful commit() issues no rollback.
C8_DestructorRollsBackOnceUnlessClosed ==
    out.op = "~transaction"
        => /\ out.err = "none"
           /\ (~hist.committed[out.k] /\ out.pre # "active_closed")
                  => Len(Rollbacks) = 1
           /\ hist.committed[out.k] => Len(Rollbacks) = 0

\* an active transaction object was destroyed and its ROLLBACK failed
C8_Witness ==
    /\ out.op = "~transaction" /\ out.pre = "active" /\ out.err = "none"
    /\ ~hist.committed[out.k]
    /\ hist.sql = <<[sql |-> "rollback", ok |-> FALSE]>>

\* What a subsequent query on the database reads
Visible == conn[db_holder].work

\* C9: when statements are executed inside one scoped transaction and the
\* transaction object is destroyed without commit(), a subsequent query sees
\* the content as it was before the transaction, in each of the three modes;
\* when the transaction reaches commit(), every statement executed in it is
\* visible.
C9_ScopedTransactionIsAtomic ==
    (db_holder # NoHolder /\ ~IsClosed(db_holder))
        => /\ (out.op = "~transaction" /\ hist.ended = "destroyed")
                  => /\ Visible = hist.base
                     /\ conn[db_holder].comm = hist.base
           /\ (out.op = "commit" /\ hist.ended = "committed")
                  => /\ Visible.rows = hist.base.rows \o hist.done
                     /\ conn[db_holder].comm = Visible

\* an exclusive transaction ran a statement, a later one failed, and the
\* transaction object has been destroyed
C9_Witness ==
    /\ db_holder # NoHolder /\ ~IsClosed(db_holder)
    /\ out.op = "~transaction" /\ hist.ended = "destroyed"
    /\ hist.mode = "exclusive"
    /\ hist.done # <<>> /\ hist.failed

\* C10: update_user_version(target) with stored version current # target
\* invokes the upgrade callback, and not the downgrade callback, when
\* target > current, and the downgrade callback, and not the upgrade callback,
\* when target < current; each is called with (old = current, new = target).
C10_CallbackMatchesDirection ==
    [][(/\ out'.op = "update_user_version" /\ out'.pre = "open"
        /\ out'.k >= 1
        /\ user.before_upgrade # "unset"
        /\ conn[db_holder].intxn = "none"
        /\ GetUserVersion(conn[db_holder]) # out'.k)
       => LET current == GetUserVersion(conn[db_holder])
              target == out'.k
          IN user'.calls =
                 <<[callback |-> IF target > current THEN "upgrade" ELSE "downgrade",
                    old |-> current, new |-> target]>>
      ]_vars

\* The last operation's log without the statements the callback ran
OwnLog == SelectSeq(hist.sql, LAMBDA e : e.sql # "insert")

\* C11: when the callback invoked by update_user_version raises, the error
\* reaches the caller, the transaction is rolled back and never committed, the
\* stored user version is what it was before the call, and every change the
\* callback made through the connection is rolled back with it.
C11_CallbackFailureRollsBack ==
    [][(out'.op = "update_user_version" /\ hist'.sql # <<>>
        /\ \E j \in 1..Len(hist'.sql) :
               hist'.sql[j] = [sql |-> "callback", ok |-> FALSE])
       => /\ out'.err = "callback_error"
          /\ conn'[db_holder].work = conn[db_holder].work
          /\ conn'[db_holder].comm = conn[db_holder].comm
          /\ conn'[db_holder].intxn = "none"
          /\ GetUserVersion(conn'[db_holder]) = GetUserVersion(conn[db_holder])
          /\ \A j \in 1..Len(hist'.sql) : hist'.sql[j].sql # "commit"
          /\ hist'.sql[Len(hist'.sql)] = [sql |-> "rollback", ok |-> TRUE]
      ]_vars

\* the callback inserted a row and raised
C11_Witness ==
    /\ out.op = "update_user_version" /\ out.err = "callback_error"
    /\ hist.sql = <<[sql |-> hist.mode, ok |-> TRUE],
                    [sql |-> "callback", ok |-> FALSE],
                    [sql |-> "insert", ok |-> TRUE],
                    [sql |-> "rollback", ok |-> TRUE]>>

\* C12: a successful update_user_version(target) with stored version
\* current # target begins a transaction in the requested mode, invokes the
\* registered callback exactly once with (current, target) before the version
\* is written, writes the version and commits, in this order; afterwards
\* get_user_version() returns target.
C12_UpdateOrder ==
    [][(/\ out'.op = "update_user_version" /\ out'.pre = "open"
        /\ out'.err = "none"
        /\ user.before_upgrade # "unset"
        /\ GetUserVersion(conn[db_holder]) # out'.k)
       => /\ OwnLog' = <<[sql |-> hist'.mode, ok |-> TRUE],
                         [sql |-> "callback", ok |-> TRUE],
                         [sql |-> "set_version", ok |-> TRUE],
                         [sql |-> "commit", ok |-> TRUE]>>
          /\ Len(user'.calls) = 1
          /\ user'.calls[1].old = GetUserVersion(conn[db_holder])
          /\ user'.calls[1].new = out'.k
          /\ GetUserVersion(conn'[db_holder]) = out'.k
          /\ conn'[db_holder].comm.ver = out'.k
          /\ conn'[db_holder].intxn = "none"
      ]_vars

\* update_user_version(1) on a fresh store has called back with (0, 1)
C12_Witness ==
    /\ out.op = "update_user_version" /\ out.err = "none" /\ out.k = 1
    /\ Len(user.calls) = 1 /\ user.calls[1].old = 0 /\ user.calls[1].new = 1
    /\ GetUserVersion(conn[db_holder]) = 1
    /\ Len(hist.sql) >= 4

\* C13: update_user_version(target) when the stored version already equals
\* target begins no transaction, invokes no callback, writes nothing and leaves
\* the stored version unchanged.
C13_SameVersionIsNoOp ==
    [][(/\ out'.op = "update_user_version" /\ out'.pre = "open"
        /\ out'.k >= 1
        /\ GetUserVersion(conn[db_holder]) = out'.k)
       => /\ out'.err = "none"
          /\ conn' = conn
          /\ user'.calls = <<>>
          /\ hist'.sql = <<>>
      ]_vars

\* update_user_version was called with the stored version and a callback set
C13_Witness ==
    /\ out.op = "update_user_version" /\ out.pre = "open" /\ out.err = "none"
    /\ out.k >= 1 /\ GetUserVersion(conn[db_holder]) = out.k
    /\ user.before_upgrade # "unset"
    /\ hist.sql = <<>> /\ user.calls = <<>>

\* C14: update_user_version(version) with version < 1 raises std::logic_error
\* before anything else happens: no transaction is begun, no callback is
\* invoked and the stored version is not changed.
C14_InvalidVersionRejected ==
    [][(out'.op = "update_user_version" /\ out'.k < 1)
       => /\ out'.err = "logic_error"
          /\ conn' = conn
          /\ user'.calls = <<>>
          /\ hist'.sql = <<>>
      ]_vars

\* update_user_version(0) was rejected on an open database with a callback set
C14_Witness ==
    /\ out.op = "update_user_version" /\ out.k = 0 /\ out.pre = "open"
    /\ out.err = "logic_error"
    /\ user.before_upgrade # "unset"
    /\ user.calls = <<>> /\ hist.sql = <<>>

\* The Statement, ResultSet and Iterator objects sharing statement k
Sharing(S, I, k) ==
    (IF S[k].obj THEN {<<"statement", k>>} ELSE {})
        \cup (IF S[k].rs THEN {<<"result_set", k>>} ELSE {})
        \cup {<<"iterator", i>> : i \in {y \in Iters : I[y].alive /\ I[y].sh = k}}

\* C15: absent an explicit finalize(), the native statement is finalized
\* exactly when the last of the Statement, ResultSet and Iterator objects
\* sharing it is destroyed, and not earlier; the result set database::query(sql)
\* returns holds an unfinalized statement although the temporary Statement that
\* prepared it has been destroyed.
C15_FinalizedWithLastSharer ==
    [][/\ \A k \in Stmts :
            (/\ shs[k].st = "live" /\ shs[k].stmt = "ptr" /\ native[k].fin = 0
             /\ ~(out'.op \in {"finalize", "exec_with_bindings"} /\ out'.k = k))
            => /\ native'[k].fin = 1 <=> Sharing(shs', iters', k) = {}
               /\ native'[k].fin = 0 <=> Sharing(shs', iters', k) # {}
       /\ (out'.op = "query" /\ out'.err = "none")
            => \E k \in Stmts :
                   /\ shs[k].st # "live"
                   /\ Sharing(shs', iters', k) = {<<"result_set", k>>}
                   /\ shs'[k].stmt = "ptr" /\ native'[k].fin = 0
      ]_vars

\* the result set is gone and the last iterator over its statement has just
\* been destroyed, which finalized the native statement
C15_Witness ==
    /\ out.op = "~iterator" /\ out.k \in Stmts /\ out.pre = "prepared"
    /\ shs[out.k].st = "dead"
    /\ native[out.k].fin = 1

\* C18: over every sequence of statement operations each native prepared
\* statement is passed to the engine's finalize at most once, whether an
\* explicit finalize() returned normally or raised, and whatever follows it
\* (a second finalize() or the destruction of the last holder).
C18_FinalizedAtMostOnce == \A k \in Stmts : native[k].fin <= 1

\* The statements still prepared against the database's connection
Outstanding ==
    {k \in Stmts : /\ shs[k].st = "live" /\ shs[k].dbh = db_holder
                   /\ shs[k].stmt = "ptr" /\ native[k].fin = 0}

\* C17 as stated: close() on a connection that still has prepared statements
\* outstanding finalizes every one of them before it closes the native
\* connection.
C17_CloseFinalizesOutstanding ==
    [][(out'.op = "close" /\ out'.pre = "open" /\ out'.err = "none")
       => \A k \in Outstanding : native'[k].fin >= 1]_vars

\* C17 as amended: close() on a connection that still has prepared statements
\* outstanding closes the native connection once and finalizes none of them;
\* every statement and its holders are left as they were.
C17_CloseLeavesOutstanding ==
    [][(out'.op = "close" /\ out'.pre = "open")
       => /\ out'.err = "none"
          /\ conn'[db_holder].closes = conn[db_holder].closes + 1
          /\ IsClosed(db_holder)'
          /\ native' = native
          /\ shs' = shs
          /\ Outstanding' = Outstanding
      ]_vars

\* close() has returned and a statement is still prepared against the
\* connection
C17_Witness ==
    /\ out.op = "close" /\ out.pre = "open" /\ out.err = "none"
    /\ IsClosed(db_holder) /\ conn[db_holder].closes = 1
    /\ Outstanding # {}

\* C20: bind(name, value) with a name that matches no placeholder of the
\* statement raises std::logic_error, not sqlite_error, whatever the value, and
\* leaves every parameter slot of the statement bound as before the call.
C20_UnknownNameIsInvalidState ==
    [][\A k \in Stmts, name \in ParamNames, v \in Values :
          (/\ StmtPre(k) = "prepared"
           /\ NativeParamIndex(native[k], name) = 0
           /\ BindName(k, name, v))
          => /\ out'.err = "logic_error"
             /\ native'[k].binds = native[k].binds
             /\ native' = native
             /\ shs' = shs
      ]_vars

\* bind by an unknown name has just been refused on a statement whose
\* parameter holds a value bound earlier
C20_Witness ==
    /\ out.op = "bind_name" /\ out.pre = "prepared" /\ out.err = "logic_error"
    /\ out.k \in Stmts
    /\ \E j \in 1..Len(native[out.k].binds) : native[out.k].binds[j] # Null

\* The Statement, ResultSet, Iterator and Transaction objects alive in (S, I, T)
\* that were derived from the connection of holder h
Derived(S, I, T, h) ==
    UNION {Sharing(S, I, k) : k \in {y \in Stmts : S[y].st = "live" /\ S[y].dbh = h}}
        \cup {<<"transaction", x>> : x \in {y \in Txns : T[y].alive /\ T[y].dbh = h}}

\* The engine has released the native connection of holder h: sqlite3_close_v2
\* was called on it and no statement prepared on it is left unfinalized.
TornDown(h) ==
    /\ conn[h].closes >= 1
    /\ ~conn[h].leak
    /\ \A k \in Stmts :
           (shs[k].st = "live" /\ shs[k].dbh = h /\ shs[k].stmt = "ptr")
               => native[k].fin >= 1

\* C16 as stated: in every reachable state, while any Statement, ResultSet,
\* Iterator or Transaction derived from a connection is alive, the native
\* connection it depends on has not been torn down.
C16_NeverTornDownWhileDerivedAlive ==
    \A h \in Holders : Derived(shs, iters, txns, h) # {} => ~TornDown(h)

\* C16 as amended: while any Statement, ResultSet, Iterator or Transaction
\* derived from a connection is alive, its connection holder is alive and the
\* native connection has not been torn down unless close() was called on it;
\* destroying or moving the database object closes the native connection only
\* when the last holder releases it, and the native connection is closed at
\* most once over close() and destruction together.
C16_TornDownOnlyByCloseOrLastHolder ==
    [][\A h \in Holders :
          /\ conn'[h].closes <= 1
          /\ Derived(shs', iters', txns', h) # {}
                => /\ holders'[h].st = "live"
                   /\ TornDown(h)' => holders'[h].db = "null"
          /\ (holders[h].st = "live" /\ conn'[h].closes > conn[h].closes)
                => \/ out'.op = "close" /\ db_holder = h /\ holders'[h].st = "live"
                   \/ /\ out'.op # "close"
                      /\ db_holder' # h
                      /\ Derived(shs', iters', txns', h) = {}
                      /\ holders[h].db = "open"
                      /\ holders'[h].st = "dead"
          /\ (holders[h].st = "live" /\ holders'[h].st # "live")
                => db_holder' # h /\ Derived(shs', iters', txns', h) = {}
      ]_vars

\* the database object was moved away while a statement still held the
\* connection; destroying that statement, the last holder, has closed it
C16_Witness ==
    /\ out.op = "~statement"
    /\ \E h \in Holders :
           /\ holders[h].st = "dead" /\ conn[h].closes = 1
           /\ db_holder # h
           /\ Derived(shs, iters, txns, h) = {}

\* C19: after a database has been opened and then closed, exec_sql, query,
\* prepare_statement, begin_transaction, commit_transaction,
\* rollback_transaction and create_transaction each raise std::logic_error, not
\* sqlite_error, and make no native call on the closed connection.
C19_ClosedDatabaseIsInvalidState ==
    [][(/\ out'.pre = "closed"
        /\ out'.op \in {"exec_sql", "query", "prepare_statement",
                        "begin_transaction", "commit_transaction",
                        "rollback_transaction", "create_transaction"})
       => /\ out'.err = "logic_error"
          /\ conn' = conn
          /\ holders' = holders
          /\ shs' = shs /\ native' = native
          /\ txns' = txns
          /\ out'.op = "create_transaction" => hist'.sql = <<>>
      ]_vars

\* create_transaction has been refused on the closed database, whose native
\* connection was closed once, by close()
C19_Witness ==
    /\ out.pre = "closed" /\ out.err = "logic_error"
    /\ out.op = "create_transaction"
    /\ IsClosed(db_holder) /\ conn[db_holder].closes = 1


\* The operations that bind or clear parameters
Binders == {"bind", "bind_name", "bind_values", "clear_bindings",
            "exec_with_bindings"}

\* C24: exec() changes no bound parameter value, so an exec() that follows
\* another without clear_bindings or a new bind runs the statement with the
\* values bound before the first; only clear_bindings or a bind changes a slot.
C24_BindingsAreSticky ==
    [][\A k \in Stmts :
          (shs[k].st = "live" /\ shs'[k].st = "live" /\ StmtPre(k) = "prepared")
          => /\ (out'.op = "exec" /\ out'.k = k)
                => /\ native'[k].binds = native[k].binds
                   /\ out'.err = "none"
                        => TableRows' = Append(TableRows, native[k].binds)
                   /\ out'.err # "none" => TableRows' = TableRows
             /\ native'[k].binds # native[k].binds
                => out'.k = k /\ out'.op \in Binders
      ]_vars

\* two exec() in a row have inserted the same bound value twice
C24_Witness ==
    /\ out.op = "exec" /\ out.err = "none" /\ out.k \in Stmts
    /\ Len(TableRows) = 2
    /\ TableRows[1] = TableRows[2]
    /\ TableRows[2] = native[out.k].binds
    /\ \E j \in 1..Len(native[out.k].binds) : native[out.k].binds[j] # Null

\* C25: a prepared statement is reusable: after exec() has completed,
\* bind(index, value) on the same statement is accepted without an error, and
\* the following exec() inserts a row carrying the newly bound value.
C25_BindAfterExecIsAccepted ==
    [][\A k \in Stmts, j \in 1..NParams, v \in Values :
          (/\ StmtPre(k) = "prepared"
           /\ native[k].vs = "halt" /\ ~native[k].failed
           /\ Bind(k, j, v))
          => /\ out'.err = "none"
             /\ native'[k].binds[j] = v
      ]_vars

\* C26: when the engine rejects COMMIT, transaction::commit() raises
\* sqlite_error to the caller and the transaction object stays active, so that
\* its destruction (on a connection still open) issues the rollback.
C26_FailedCommitStaysActive ==
    [][\A t \in Txns :
          /\ (/\ out'.op = "commit" /\ out'.k = t
              /\ hist'.sql = <<[sql |-> "commit", ok |-> FALSE]>>)
             => /\ out'.err = "sqlite_error"
                /\ txns'[t].alive
                /\ txns'[t].in_transaction = txns[t].in_transaction
                /\ hist'.committed[t] = hist.committed[t]
          /\ (/\ out'.op = "~transaction" /\ out'.k = t
              /\ txns[t].in_transaction /\ ~IsClosed(txns[t].dbh))
             => /\ out'.err = "none"
                /\ Len(Rollbacks') = 1
      ]_vars

\* the engine has just rejected the COMMIT of an active transaction object
C26_Witness ==
    /\ out.op = "commit" /\ out.err = "sqlite_error" /\ out.pre = "active"
    /\ hist.sql = <<[sql |-> "commit", ok |-> FALSE]>>
    /\ txns[out.k].alive /\ txns[out.k].in_transaction
    /\ TxnPre(out.k) = "active"
    /\ conn[txns[out.k].dbh].intxn # "none"

\* C28: exec_sql(text) finalizes the statement it prepared on every path:
\* whether the step succeeds or fails, no native statement prepared by exec_sql
\* is left unfinalized when exec_sql returns or raises.
C28_ExecSqlFinalizesOnEveryPath == \A h \in Holders : ~conn[h].leak

\* C27: after an open() that raised sqlite_error the database has no usable
\* connection: is_open() reports not open and no operation can reach a native
\* connection, whether or not the database had been opened before.
C27_FailedOpenLeavesNoConnection ==
    (out.op = "open" /\ out.err = "sqlite_error")
    => ~IsOpen /\ DbPre # "open"

\* the iterator is in a terminal ("no more rows") state: exhausted, or end()
Terminal(it) == it.state = SQLITE_DONE \/ it.state = NoState

\* C29: any two iterators that are both in a terminal state compare equal,
\* whatever their statements and row_index are; equality is then transitive
\* through the end() sentinel.
C29_TerminalIteratorsAreEqual ==
    \A i, j \in Iters :
       (iters[i].alive /\ iters[j].alive /\ Terminal(iters[i]) /\ Terminal(iters[j]))
       => /\ IterEq(iters[i], iters[j])
          /\ (IterEq(iters[i], EndIter) /\ IterEq(EndIter, iters[j]))
             => IterEq(iters[i], iters[j])

\* the result of sqlite3_step is neither SQLITE_ROW nor SQLITE_DONE
StepError(rc) == rc # SQLITE_ROW /\ rc # SQLITE_DONE

C21_NameResolvesToFirstColumn ==
    (out.op \in {"get_column_index", "get_by_name"} /\ out.pre = "prepared")
    => LET named == {j \in 1..Len(native[out.k].cols) : native[out.k].cols[j].name = out.col}
           first == CHOOSE j \in named : \A g \in named : j <= g
       IN IF out.op = "get_column_index"
          THEN /\ out.err = "none"
               /\ out.val = IF named = {} THEN -1 ELSE first - 1
          ELSE IF named = {}
          THEN out.err = "logic_error"
          ELSE [err |-> out.err, val |-> out.val]
                   \in {GetAs(out.T, c) : c \in ColumnCell(out.k, first - 1)}

\* get<int>("data") on a row where two columns are named data, the first one
\* the table's column holding 0 and the second one the rowid 1, and a third
\* spelling of the name exists in no column
C21_Witness ==
    /\ out.op = "get_by_name" /\ out.pre = "prepared" /\ out.err = "none"
    /\ out.T = "int" /\ out.col = "data" /\ out.val = 0
    /\ OnRow(out.k)
    /\ Len(native[out.k].cols) = 2
    /\ native[out.k].cols[1] = [name |-> "data", src |-> "data"]
    /\ native[out.k].cols[2] = [name |-> "data", src |-> "rowid"]

\* C22: blob round trip.  For every byte sequence b, bind(index, blob of b)
\* stores b, and get<blob> on a column holding b yields a view of size Len(b)
\* whose bytes are b, embedded and trailing zero bytes and length zero included.
C22_BlobRoundTrip ==
    [][/\ \A k \in Stmts, b \in ByteSeqs :
            (/\ StmtPre(k) = "prepared" /\ native[k].vs = "ready"
             /\ BindBlob(k, 1, BlobOf(b)))
            => out'.err = "none" /\ native'[k].binds[1] = Blob(b)
       /\ \A b \in ByteSeqs :
            (/\ out'.op = "get" /\ out'.T = "blob" /\ out'.pre = "prepared"
             /\ ColumnCell(out'.k, out'.col) = {Blob(b)})
            => /\ out'.err = "none"
               /\ out'.val.size = Len(b)
               /\ SubSeq(out'.val.bytes, 1, out'.val.size) = b
      ]_vars

C31_CommitOrRollbackNotBoth ==
    [][\A t \in Txns :
          /\ (out'.op = "commit" /\ out'.k = t /\ out'.err = "none")
             => ~txns'[t].in_transaction /\ hist'.committed[t]
          /\ (out'.op = "~transaction" /\ out'.k = t)
             => /\ hist.committed[t] => Len(Rollbacks') = 0
                /\ Len(Rollbacks') > 0
                   => ~hist.committed[t] /\ txns[t].in_transaction
      ]_vars

\* a transaction object has been destroyed after its successful commit, on a
\* connection that is still open
C31_Witness ==
    /\ out.op = "~transaction" /\ out.pre = "inactive" /\ out.err = "none"
    /\ hist.committed[out.k]
    /\ hist.sql = <<>>
    /\ db_holder # NoHolder /\ ~IsClosed(db_holder)

\* C37: when the connection has been closed while a transaction object is
\* still active, destroying that object passes no ROLLBACK (and nothing else)
\* to the closed connection and raises nothing.
C37_NoRollbackOnClosedConnection ==
    [][\A t \in Txns :
          (/\ out'.op = "~transaction" /\ out'.k = t
           /\ txns[t].in_transaction /\ IsClosed(txns[t].dbh))
          => /\ out'.err = "none"
             /\ hist'.sql = <<>>
             /\ conn'[txns[t].dbh].work = conn[txns[t].dbh].work
             /\ conn'[txns[t].dbh].intxn = conn[txns[t].dbh].intxn
             /\ ~txns'[t].alive
      ]_vars

\* an active transaction object was destroyed after close() on its connection
C37_Witness ==
    /\ out.op = "~transaction" /\ out.pre = "active_closed" /\ out.err = "none"
    /\ ~hist.committed[out.k]
    /\ hist.sql = <<>>

\* C36: on a database whose _db_holder is null (never opened, or left empty by
\* a move) close() is a no-op and exec_sql(), query(), prepare_statement(),
\* begin_transaction() and create_transaction() raise std::logic_error; none of
\* them acts on the missing connection holder.
C36_NeverOpenedIsInvalidState ==
    (/\ out.pre = "null"
     /\ out.op \in {"close", "exec_sql", "query", "prepare_statement",
                    "begin_transaction", "create_transaction"})
    => /\ out.op = "close" => out.err = "none"
       /\ out.op # "close" => out.err = "logic_error"

\* C35: when operator++ raises sqlite_error because the step failed, the
\* iterator is as it was before the call: same row_index, same stored step
\* state, hence the same equality with end() and with every other iterator.
C35_FailedIncrementLeavesIterator ==
    [][\A i \in Iters, fail \in BOOLEAN :
          (/\ iters[i].alive /\ StmtPre(iters[i].sh) = "prepared"
           /\ IterNext(i, fail) /\ out'.err = "sqlite_error")
          => /\ iters'[i].row_index = iters[i].row_index
             /\ iters'[i].state = iters[i].state
             /\ IterEq(iters'[i], EndIter) = IterEq(iters[i], EndIter)
             /\ \A j \in Iters \ {i} :
                  iters[j].alive
                  => IterEq(iters'[i], iters'[j]) = IterEq(iters[i], iters[j])
      ]_vars

\* C33: the terminal state is absorbing.  Once an iterator compares equal to
\* end(), an operator++ the engine accepts leaves it equal to end() and does
\* not put the statement back on a row.
C33_TerminalIsAbsorbing ==
    [][\A i \in Iters :
          (/\ iters[i].alive /\ StmtPre(iters[i].sh) = "prepared"
           /\ IterEq(iters[i], EndIter)
           /\ IterNext(i, FALSE))
          => /\ IterEq(iters'[i], EndIter)
             /\ CursorRow(iters[i].sh)' = 0
      ]_vars

\* C32: bind_values(v1, ..., vn) binds vi at the 1-based position i in argument
\* order and fails fast: when the bind of vk is refused, sqlite_error is
\* raised, the positions before k hold the new values and the positions from k
\* on are as they were (no value after vk reaches the engine).
C32_BindValuesFailsFast ==
    [][\A k \in Stmts,
          vals \in UNION {[1..len -> Values \cup {TooBig}] : len \in 0..(NParams + 2)} :
          (StmtPre(k) = "prepared" /\ BindValues(k, vals))
          => LET old == native[k].binds
                 new == native'[k].binds
                 bad == {j \in 1..Len(vals) :
                            \/ native[k].vs # "ready"
                            \/ j > Len(old)
                            \/ vals[j] = TooBig}
                 stop == IF bad = {} THEN Len(vals) + 1
                         ELSE CHOOSE j \in bad : \A g \in bad : j <= g
             IN /\ out'.err = IF bad = {} THEN "none" ELSE "sqlite_error"
                /\ Len(new) = Len(old)
                /\ \A j \in 1..Len(old) :
                     new[j] = IF j < stop THEN vals[j] ELSE old[j]
      ]_vars

\* bind_values(v1, refused, ...) on a statement with two parameters, the
\* second of them unbound: the first position has the new value, the second
\* one is still unbound
C32_Witness ==
    /\ out.op = "bind_values" /\ out.pre = "prepared" /\ out.err = "sqlite_error"
    /\ native[out.k].vs = "ready"
    /\ Len(native[out.k].binds) = 2
    /\ native[out.k].binds[1] = Integer(2)
    /\ native[out.k].binds[2] = Null

\* C34: a move of transaction objects loses no transaction.  After a move of
\* an active source exactly the destination is active, on the source's
\* connection; and a move-assignment onto an object that is itself active, for
\* a transaction of its own on a connection that stays open, does not leave
\* that transaction open: it has been rolled back.
C34_MovesEndEachTransactionOnce ==
    [][\A d, s \in Txns :
          /\ ((TxnMoveConstruct(d, s) \/ TxnMoveAssign(d, s)) /\ txns[s].in_transaction)
             => /\ txns'[d].in_transaction /\ ~txns'[s].in_transaction
                /\ txns'[d].dbh = txns[s].dbh
          /\ (/\ TxnMoveAssign(d, s)
              /\ txns[d].in_transaction /\ ~txns[s].in_transaction
              /\ ~IsClosed(txns[d].dbh)
              /\ conn[txns[d].dbh].intxn # "none"
              /\ holders'[txns[d].dbh].db = "open")
             => conn'[txns[d].dbh].intxn = "none"
      ]_vars

====
